---------------------------- MODULE Spec2Model ----------------------------
(***************************************************************************)
(* Verification model of the visual inspection pipelines of                *)
(* walkthrough-capstone: the quality gate (app/agents/quality_gate), the   *)
(* coverage aggregator and the coverage review (app/agents/coverage_review).*)
(*                                                                         *)
(* Scores, thresholds and the margin are integers (the code's floats are   *)
(* only compared and subtracted).  Percentages are kept in tenths of a     *)
(* percent (143 is 14.3).  Text is a sequence of one-character strings so  *)
(* that lower(), upper(), strip(), `in` and startswith() are computed.     *)
(***************************************************************************)
EXTENDS Integers, Sequences, FiniteSets, TLC

VARIABLES
    pc,          \* the node of the running graph that executes next
    trace,       \* the nodes executed so far, in order
    keys,        \* the providers whose API key is set in Settings
    llm_calls,   \* the model calls made so far, with what each returned
    qg,          \* QualityGateState
    qg_result,   \* what run_quality_gate returned (NoResult before it returns)
    cov,         \* CoverageState
    cov_result,  \* what run_coverage_review returned (NoResult before)
    fn_args,     \* arguments of the pure function under check
    fn_ret,      \* its return value (NoResult before the call)
    cmp,         \* ComparisonState
    store,       \* the rows the runs have written to the database
    cmp_result,  \* what run_comparison returned (NoResult before)
    settings     \* get_settings(): the language policy vocabularies

vars == <<pc, trace, keys, llm_calls, qg, qg_result, cov, cov_result, fn_args, fn_ret,
          cmp, cmp_result, settings, store>>

NoResult == [returned |-> FALSE]

\* No image has a quality_json and no candidate row exists
EmptyStore == [quality_json |-> <<>>, candidates |-> <<>>]

---------------------------------------------------------------------------
(* Bounds of the model *)

MaxImages == 2
MaxScore == 3
MaxSummaries == 2

---------------------------------------------------------------------------
(* Text *)

LowerChars == <<"a","b","c","d","e","f","g","h","i","j","k","l","m",
                "n","o","p","q","r","s","t","u","v","w","x","y","z">>
UpperChars == <<"A","B","C","D","E","F","G","H","I","J","K","L","M",
                "N","O","P","Q","R","S","T","U","V","W","X","Y","Z">>

IndexIn(c, chars) ==
    IF \E i \in 1..Len(chars) : chars[i] = c
    THEN CHOOSE i \in 1..Len(chars) : chars[i] = c
    ELSE 0

\* The characters of the model's texts
\* "~" stands for the grave accent, which a TLA+ string cannot hold
Punctuation == {" ", "-", ".", ",", ":", "~", "{", "}", "[", "]", "\"", "_", "?"}
Digits == {"0", "1", "2", "3", "4", "5", "6", "7", "8", "9"}
Chars == Punctuation \cup Digits
         \cup {LowerChars[i] : i \in 1..26} \cup {UpperChars[i] : i \in 1..26}

\* str.upper() / str.lower(), one character
UpperChar == [c \in Chars |-> IF IndexIn(c, LowerChars) > 0
                              THEN UpperChars[IndexIn(c, LowerChars)] ELSE c]
LowerChar == [c \in Chars |-> IF IndexIn(c, UpperChars) > 0
                              THEN LowerChars[IndexIn(c, UpperChars)] ELSE c]

upper(s) == [i \in 1..Len(s) |-> UpperChar[s[i]]]
lower(s) == [i \in 1..Len(s) |-> LowerChar[s[i]]]

\* str.strip(): leading and trailing blanks removed
strip(s) ==
    LET n == Len(s)
    IN  IF \A i \in 1..n : s[i] = " " THEN <<>>
        ELSE LET lo == CHOOSE i \in 1..n : s[i] # " " /\ \A j \in 1..(i - 1) : s[j] = " "
                 back == CHOOSE k \in 1..n :
                             s[n + 1 - k] # " " /\ \A j \in 1..(k - 1) : s[n + 1 - j] = " "
             IN  SubSeq(s, lo, n + 1 - back)

\* `needle in hay`
contains(hay, needle) ==
    \E i \in 0..(Len(hay) - Len(needle)) : \A j \in 1..Len(needle) : hay[i + j] = needle[j]

\* hay.startswith(prefix)
startswith(hay, prefix) ==
    /\ Len(prefix) <= Len(hay)
    /\ \A j \in 1..Len(prefix) : hay[j] = prefix[j]

\* s.split("-")[0]
split_dash_first(s) ==
    LET idx == {i \in 1..Len(s) : s[i] = "-"}
    IN  IF idx = {} THEN s
        ELSE SubSeq(s, 1, (CHOOSE i \in idx : \A j \in idx : i <= j) - 1)

---------------------------------------------------------------------------
(* Provider selection: app/agents/llm_provider.py *)

Providers == {"openai", "anthropic", "gemini", "grok"}

\* The key configurations the model runs with
KeyConfigs == {{}, {"gemini", "grok"}}

\* get_llm_provider(): the provider auto-detected from the configured keys,
\* "RuntimeError" when no key is configured.
get_llm_provider(ks) ==
    IF "openai" \in ks THEN "openai"
    ELSE IF "anthropic" \in ks THEN "anthropic"
    ELSE IF "gemini" \in ks THEN "gemini"
    ELSE IF "grok" \in ks THEN "grok"
    ELSE "RuntimeError"

---------------------------------------------------------------------------
(* Quality gate: app/agents/quality_gate/tools.py *)

\* decide_quality with the sharpness hard-failure test left out
decide_quality_no_sharpness(blur, darkness, sharpness, blur_threshold, darkness_threshold, sharpness_threshold, borderline_margin) ==
    IF blur < blur_threshold - borderline_margin THEN "rejected"
    ELSE IF darkness < darkness_threshold - borderline_margin THEN "rejected"
    ELSE IF /\ blur >= blur_threshold
            /\ darkness >= darkness_threshold
            /\ sharpness >= sharpness_threshold
         THEN "accepted"
    ELSE "borderline"

\* decide_quality: accepted | rejected | borderline
decide_quality(blur, darkness, sharpness, blur_threshold, darkness_threshold, sharpness_threshold, borderline_margin) ==
    IF blur < blur_threshold - borderline_margin THEN "rejected"
    ELSE IF darkness < darkness_threshold - borderline_margin THEN "rejected"
    ELSE IF sharpness < sharpness_threshold - borderline_margin THEN "rejected"
    ELSE IF /\ blur >= blur_threshold
            /\ darkness >= darkness_threshold
            /\ sharpness >= sharpness_threshold
         THEN "accepted"
    ELSE "borderline"

\* explain_quality with the sharpness entry left out
explain_quality_no_sharpness(blur, darkness, sharpness, blur_threshold, darkness_threshold, sharpness_threshold) ==
    (IF blur < blur_threshold THEN <<"Too blurry">> ELSE <<>>)
    \o (IF darkness < darkness_threshold THEN <<"Too dark">> ELSE <<>>)

\* explain_quality: the rejection reasons, one entry (named by its "issue")
\* per metric below its threshold, in the order blur, darkness, sharpness
explain_quality(blur, darkness, sharpness, blur_threshold, darkness_threshold, sharpness_threshold) ==
    (IF blur < blur_threshold THEN <<"Too blurry">> ELSE <<>>)
    \o (IF darkness < darkness_threshold THEN <<"Too dark">> ELSE <<>>)
    \o (IF sharpness < sharpness_threshold THEN <<"Low detail">> ELSE <<>>)

---------------------------------------------------------------------------
(* Quality gate: app/agents/quality_gate/graph.py *)

\* What the file of an image holds: unreadable, or the three CV scores;
\* sharpness below and at its threshold
ScoreLevels == {0, 1, 2}
Files ==
    {[readable |-> FALSE, blur |-> 0, darkness |-> 0, sharpness |-> 0]}
    \cup [readable : {TRUE}, blur : ScoreLevels, darkness : ScoreLevels, sharpness : {0, 1}]

\* The threshold configurations the model runs with (settings.quality_gate)
QualityConfigs ==
    [blur_threshold : {2}, darkness_threshold : {2}, sharpness_threshold : {1},
     borderline_margin : {-1, 0, 1}]

\* What the vision model answers to BORDERLINE_JUDGE_PROMPT
R_ACCEPT == <<"A","C","C","E","P","T">>
R_REJECT == <<"R","E","J","E","C","T">>
R_UNACCEPTABLE == <<"U","N","A","C","C","E","P","T","A","B","L","E">>
R_cannot_accept == <<"I"," ","c","a","n","n","o","t"," ","a","c","c","e","p","t"," ","t","h","i","s"," ","p","h","o","t","o">>
JudgeResponses == {R_ACCEPT, R_REJECT, R_UNACCEPTABLE, R_cannot_accept}

\* The outcome of one model call: it raised, or it returned text
Raised == [raised |-> TRUE, text |-> <<>>]
Returned(text) == [raised |-> FALSE, text |-> text]
JudgeOutcomes == {Raised} \cup {Returned(r) : r \in JudgeResponses}

\* LangGraph merges the dict a node returns into the state
Merge(state, update) ==
    [k \in DOMAIN state |-> IF k \in DOMAIN update THEN update[k] ELSE state[k]]

Range(seq) == {seq[i] : i \in 1..Len(seq)}

\* [f(x) for x in seq if keep(x)]
RECURSIVE SelectIds(_, _)
SelectIds(ms, status) ==
    IF ms = <<>> THEN <<>>
    ELSE (IF Head(ms).status = status THEN <<Head(ms).image_id>> ELSE <<>>)
         \o SelectIds(Tail(ms), status)

\* compute_metrics_node; file[id] is what the file of image id holds.
\* compute_blur / compute_darkness / compute_sharpness raise on an unreadable
\* file, and the image is then scored 0.0, 0.0, 0.0
compute_metrics_node(state, file) ==
    [metrics |->
        [i \in 1..Len(state.images) |->
            LET img == state.images[i]
                ok == file[img.id].readable
            IN  [image_id |-> img.id,
                 blur_score |-> IF ok THEN file[img.id].blur ELSE 0,
                 darkness_score |-> IF ok THEN file[img.id].darkness ELSE 0,
                 sharpness_score |-> IF ok THEN file[img.id].sharpness ELSE 0,
                 status |-> "pending",
                 llm_verdict |-> ""]]]

Verdict(m, cfg) ==
    decide_quality(m.blur_score, m.darkness_score, m.sharpness_score,
                   cfg.blur_threshold, cfg.darkness_threshold,
                   cfg.sharpness_threshold, cfg.borderline_margin)

evaluate_node(state) ==
    LET updated_metrics ==
            [i \in 1..Len(state.metrics) |->
                [state.metrics[i] EXCEPT !.status = Verdict(state.metrics[i], state.config)]]
    IN  [metrics |-> updated_metrics,
         borderline_ids |-> SelectIds(updated_metrics, "borderline")]

\* should_llm_judge that always escalates
should_llm_judge_always(state) == "llm_judge"

should_llm_judge(state) ==
    IF state.borderline_ids # <<>> THEN "llm_judge" ELSE "finalize"

\* "ACCEPT" in response.upper()
judge_verdict(response) ==
    IF contains(upper(response), R_ACCEPT) THEN "accepted" ELSE "rejected"

\* llm_judge_node that fails closed (rejects) when the model call raises
llm_judge_node_fail_closed(state, ks, answer) ==
    IF get_llm_provider(ks) = "RuntimeError"
    THEN [metrics |->
            [i \in 1..Len(state.metrics) |->
                IF state.metrics[i].image_id \in Range(state.borderline_ids)
                THEN [state.metrics[i] EXCEPT !.status = "accepted",
                                              !.llm_verdict = "accepted_no_llm"]
                ELSE state.metrics[i]],
          borderline_ids |-> <<>>]
    ELSE [metrics |->
            [i \in 1..Len(state.metrics) |->
                LET m == state.metrics[i]
                    verdict == IF answer[m.image_id].raised THEN "rejected"
                               ELSE IF contains(upper(answer[m.image_id].text), R_ACCEPT)
                                    THEN "accepted" ELSE "rejected"
                IN  IF m.image_id \in Range(state.borderline_ids)
                    THEN [m EXCEPT !.status = verdict, !.llm_verdict = verdict]
                    ELSE m],
          borderline_ids |-> <<>>]

\* llm_judge_node; answer[id] is the outcome of llm.analyze_image for image id
llm_judge_node(state, ks, answer) ==
    IF get_llm_provider(ks) = "RuntimeError"
    THEN [metrics |->
            [i \in 1..Len(state.metrics) |->
                IF state.metrics[i].image_id \in Range(state.borderline_ids)
                THEN [state.metrics[i] EXCEPT !.status = "accepted",
                                              !.llm_verdict = "accepted_no_llm"]
                ELSE state.metrics[i]],
          borderline_ids |-> <<>>]
    ELSE [metrics |->
            [i \in 1..Len(state.metrics) |->
                LET m == state.metrics[i]
                    verdict == IF answer[m.image_id].raised THEN "accepted"
                               ELSE judge_verdict(answer[m.image_id].text)
                IN  IF m.image_id \in Range(state.borderline_ids)
                    THEN [m EXCEPT !.status = verdict, !.llm_verdict = verdict]
                    ELSE m],
          borderline_ids |-> <<>>]

\* The calls llm_judge_node makes to llm.analyze_image, in order
RECURSIVE judge_calls(_, _, _)
judge_calls(ms, borderline_ids, answer) ==
    IF ms = <<>> THEN <<>>
    ELSE (IF Head(ms).image_id \in Range(borderline_ids)
          THEN <<[site |-> "llm_judge", image_id |-> Head(ms).image_id,
                  outcome |-> answer[Head(ms).image_id]]>>
          ELSE <<>>)
         \o judge_calls(Tail(ms), borderline_ids, answer)

\* finalize_node that fails only when every image is rejected
finalize_node_all_rejected(state) ==
    [overall_status |->
        IF \A i \in 1..Len(state.metrics) : state.metrics[i].status = "rejected"
        THEN "failed" ELSE "passed"]

finalize_node(state) ==
    [overall_status |->
        IF \E i \in 1..Len(state.metrics) : state.metrics[i].status = "rejected"
        THEN "failed" ELSE "passed"]

\* run_quality_gate, after graph.ainvoke: the per-image results, with the
\* rejection reasons of the rejected images
images_out(result) ==
    [id \in {result.metrics[i].image_id : i \in 1..Len(result.metrics)} |->
        LET m == result.metrics[CHOOSE i \in 1..Len(result.metrics) :
                                    result.metrics[i].image_id = id
                                    /\ \A j \in (i+1)..Len(result.metrics) :
                                          result.metrics[j].image_id # id]
            cfg == result.config
        IN  [status |-> m.status,
             blur_score |-> m.blur_score,
             darkness_score |-> m.darkness_score,
             sharpness_score |-> m.sharpness_score,
             has_reasons |-> (m.status = "rejected"),
             reasons |-> IF m.status = "rejected"
                         THEN explain_quality(m.blur_score, m.darkness_score,
                                              m.sharpness_score, cfg.blur_threshold,
                                              cfg.darkness_threshold,
                                              cfg.sharpness_threshold)
                         ELSE <<>>]]

\* crud.update_capture_image, once per entry of the final metrics
updated_quality_json(result) ==
    [i \in 1..Len(result.metrics) |->
        [image_id |-> result.metrics[i].image_id,
         blur_score |-> result.metrics[i].blur_score,
         darkness_score |-> result.metrics[i].darkness_score,
         sharpness_score |-> result.metrics[i].sharpness_score,
         status |-> result.metrics[i].status,
         llm_verdict |-> result.metrics[i].llm_verdict]]

run_quality_gate_return(result) ==
    [returned |-> TRUE, status |-> result.overall_status, images |-> images_out(result)]

---------------------------------------------------------------------------
(* The quality gate run: run_quality_gate drives the compiled graph        *)
(* compute_metrics -> evaluate -> (llm_judge | finalize) -> finalize -> END *)

IdleQG == [images |-> <<>>, metrics |-> <<>>, borderline_ids |-> <<>>,
           overall_status |-> "", config |-> [idle |-> TRUE]]
IdleCov == [idle |-> TRUE]
IdleCmp == [idle |-> TRUE]
IdleSettings == [idle |-> TRUE]

\* capture.images: up to MaxImages images, with distinct ids
ImageLists == {[i \in 1..n |-> [id |-> i]] : n \in 0..MaxImages}

\* run_quality_gate builds initial_state from the capture and the settings
InitQG ==
    /\ pc = "compute_metrics"
    /\ trace = <<>>
    /\ keys \in KeyConfigs
    /\ llm_calls = <<>>
    /\ \E imgs \in ImageLists, cfg \in QualityConfigs :
          qg = [images |-> imgs, metrics |-> <<>>, borderline_ids |-> <<>>,
                overall_status |-> "", config |-> cfg]
    /\ qg_result = NoResult
    /\ cov = IdleCov
    /\ cov_result = NoResult
    /\ cmp = IdleCmp
    /\ cmp_result = NoResult
    /\ settings = IdleSettings
    /\ store = EmptyStore
    /\ fn_args = <<>>
    /\ fn_ret = NoResult

QG_compute_metrics ==
    /\ pc = "compute_metrics"
    /\ \E file \in [{qg.images[i].id : i \in 1..Len(qg.images)} -> Files] :
          qg' = Merge(qg, compute_metrics_node(qg, file))
    /\ pc' = "evaluate"
    /\ trace' = Append(trace, "compute_metrics")
    /\ UNCHANGED <<keys, llm_calls, qg_result, cov, cov_result, fn_args, fn_ret,
                 cmp, cmp_result, settings, store>>

QG_evaluate ==
    /\ pc = "evaluate"
    /\ qg' = Merge(qg, evaluate_node(qg))
    /\ pc' = should_llm_judge(qg')
    /\ trace' = Append(trace, "evaluate")
    /\ UNCHANGED <<keys, llm_calls, qg_result, cov, cov_result, fn_args, fn_ret,
                 cmp, cmp_result, settings, store>>

QG_llm_judge ==
    /\ pc = "llm_judge"
    /\ \E answer \in [Range(qg.borderline_ids) -> JudgeOutcomes] :
          /\ qg' = Merge(qg, llm_judge_node(qg, keys, answer))
          /\ llm_calls' = IF get_llm_provider(keys) = "RuntimeError" THEN llm_calls
                          ELSE llm_calls \o judge_calls(qg.metrics, qg.borderline_ids, answer)
    /\ pc' = "finalize"
    /\ trace' = Append(trace, "llm_judge")
    /\ UNCHANGED <<keys, qg_result, cov, cov_result, fn_args, fn_ret,
                 cmp, cmp_result, settings, store>>

\* The finalize step writing the quality_json rows itself
QG_finalize_writing ==
    /\ pc = "finalize"
    /\ qg' = Merge(qg, finalize_node(qg))
    /\ store' = [store EXCEPT !.quality_json = @ \o updated_quality_json(qg')]
    /\ pc' = "END"
    /\ trace' = Append(trace, "finalize")
    /\ UNCHANGED <<keys, llm_calls, qg_result, cov, cov_result, fn_args, fn_ret,
                 cmp, cmp_result, settings>>

QG_finalize ==
    /\ pc = "finalize"
    /\ qg' = Merge(qg, finalize_node(qg))
    /\ pc' = "END"
    /\ trace' = Append(trace, "finalize")
    /\ UNCHANGED <<keys, llm_calls, qg_result, cov, cov_result, fn_args, fn_ret,
                 cmp, cmp_result, settings, store>>

\* After graph.ainvoke: the rows are written, then the dict is returned
QG_return ==
    /\ pc = "END"
    /\ store' = [store EXCEPT !.quality_json = @ \o updated_quality_json(qg)]
    /\ qg_result' = run_quality_gate_return(qg)
    /\ pc' = "returned"
    /\ UNCHANGED <<trace, keys, llm_calls, qg, cov, cov_result, fn_args, fn_ret,
                 cmp, cmp_result, settings>>

NextQG ==
    \/ QG_compute_metrics
    \/ QG_evaluate
    \/ QG_llm_judge
    \/ QG_finalize
    \/ QG_return

SpecQG == InitQG /\ [][NextQG]_vars

---------------------------------------------------------------------------
(* decide_quality called on its own, on arguments drawn from bounded sets *)

Thresholds == {1, 2, 3}
Margins == {-1, 0, 1, 2}

InitDecide ==
    /\ pc = "call"
    /\ trace = <<>>
    /\ keys = {}
    /\ llm_calls = <<>>
    /\ qg = IdleQG
    /\ qg_result = NoResult
    /\ cov = IdleCov
    /\ cov_result = NoResult
    /\ cmp = IdleCmp
    /\ cmp_result = NoResult
    /\ settings = IdleSettings
    /\ store = EmptyStore
    /\ fn_args \in [blur : 0..MaxScore, darkness : 0..MaxScore, sharpness : 0..MaxScore,
                    blur_threshold : Thresholds, darkness_threshold : Thresholds,
                    sharpness_threshold : Thresholds, borderline_margin : Margins]
    /\ fn_ret = NoResult

Call_decide_quality ==
    /\ pc = "call"
    /\ fn_ret' = [returned |-> TRUE,
                  value |-> decide_quality(fn_args.blur, fn_args.darkness, fn_args.sharpness,
                                           fn_args.blur_threshold, fn_args.darkness_threshold,
                                           fn_args.sharpness_threshold,
                                           fn_args.borderline_margin)]
    /\ pc' = "returned"
    /\ UNCHANGED <<trace, keys, llm_calls, qg, qg_result, cov, cov_result, fn_args,
                 cmp, cmp_result, settings, store>>

NextDecide == Call_decide_quality

SpecDecide == InitDecide /\ [][NextDecide]_vars

---------------------------------------------------------------------------
(* Claims about the quality gate *)

\* C1: decide_quality returns 'rejected' when at least one metric is strictly
\* below its threshold minus the margin, whatever the other two are; otherwise
\* 'accepted' when all three metrics are >= their thresholds; otherwise
\* 'borderline'.  Lowering one metric of an accepted triple below
\* threshold - margin gives 'rejected'.  With thresholds (100, 40, 50) and
\* margin 20: (200,100,80) is accepted, (10,100,80) rejected, (90,100,80)
\* borderline.
C1_DecideQuality ==
    pc = "returned" =>
        LET a == fn_args
            below == \/ a.blur < a.blur_threshold - a.borderline_margin
                     \/ a.darkness < a.darkness_threshold - a.borderline_margin
                     \/ a.sharpness < a.sharpness_threshold - a.borderline_margin
            pass == /\ a.blur >= a.blur_threshold
                    /\ a.darkness >= a.darkness_threshold
                    /\ a.sharpness >= a.sharpness_threshold
            low == (-2)..MaxScore
        IN  /\ below => fn_ret.value = "rejected"
            /\ (~below /\ pass) => fn_ret.value = "accepted"
            /\ (~below /\ ~pass) => fn_ret.value = "borderline"
            /\ fn_ret.value = "accepted" =>
                  \A v \in low :
                     /\ v < a.blur_threshold - a.borderline_margin =>
                           decide_quality(v, a.darkness, a.sharpness, a.blur_threshold,
                                          a.darkness_threshold, a.sharpness_threshold,
                                          a.borderline_margin) = "rejected"
                     /\ v < a.darkness_threshold - a.borderline_margin =>
                           decide_quality(a.blur, v, a.sharpness, a.blur_threshold,
                                          a.darkness_threshold, a.sharpness_threshold,
                                          a.borderline_margin) = "rejected"
                     /\ v < a.sharpness_threshold - a.borderline_margin =>
                           decide_quality(a.blur, a.darkness, v, a.blur_threshold,
                                          a.darkness_threshold, a.sharpness_threshold,
                                          a.borderline_margin) = "rejected"
            /\ decide_quality(200, 100, 80, 100, 40, 50, 20) = "accepted"
            /\ decide_quality(10, 100, 80, 100, 40, 50, 20) = "rejected"
            /\ decide_quality(90, 100, 80, 100, 40, 50, 20) = "borderline"

\* C1 witness: only the sharpness is below threshold - margin, the other two
\* metrics are at accepted levels, and the call returned 'rejected'
C1_Witness ==
    /\ pc = "returned"
    /\ fn_args.blur >= fn_args.blur_threshold
    /\ fn_args.darkness >= fn_args.darkness_threshold
    /\ fn_args.sharpness < fn_args.sharpness_threshold - fn_args.borderline_margin
    /\ fn_args.borderline_margin > 0
    /\ fn_ret.value = "rejected"

\* The classification of a scored image by the thresholds
Classified(m) == Verdict(m, qg.config)
MetricIdx == 1..Len(qg.metrics)
JudgeDone == pc \in {"finalize", "END", "returned"}
\* The model calls made for image id
CallsFor(id) == {k \in 1..Len(llm_calls) : llm_calls[k].image_id = id}

C3_Finalize ==
    /\ pc \in {"END", "returned"} =>
          /\ \A i \in MetricIdx : qg.metrics[i].status \in {"accepted", "rejected"}
          /\ qg.overall_status \in {"passed", "failed"}
          /\ qg.overall_status = "failed"
                <=> \E i \in MetricIdx : qg.metrics[i].status = "rejected"
    /\ pc = "returned" =>
          /\ qg_result.status = qg.overall_status
          /\ DOMAIN qg_result.images = {qg.metrics[i].image_id : i \in MetricIdx}
          /\ \A i \in MetricIdx :
                qg_result.images[qg.metrics[i].image_id].status = qg.metrics[i].status

\* C3 witness: a run returned 'failed' with one image rejected by the model
\* and another image accepted
C3_Witness ==
    /\ pc = "returned"
    /\ qg_result.status = "failed"
    /\ \E i, j \in MetricIdx :
          /\ qg.metrics[i].status = "rejected"
          /\ qg.metrics[i].llm_verdict = "rejected"
          /\ qg.metrics[j].status = "accepted"

\* C4 (states): the model-judge stage is entered exactly when some image is
\* borderline after classification, every model call is for a borderline
\* image, and an image classified 'accepted' or 'rejected' has that status
\* from classification to the end of the run and in the returned result.
C4_State ==
    /\ pc = "llm_judge" => \E i \in MetricIdx : Classified(qg.metrics[i]) = "borderline"
    /\ JudgeDone =>
          ("llm_judge" \in Range(trace)
              <=> \E i \in MetricIdx : Classified(qg.metrics[i]) = "borderline")
    /\ \A k \in 1..Len(llm_calls) :
          \E i \in MetricIdx : /\ qg.metrics[i].image_id = llm_calls[k].image_id
                               /\ Classified(qg.metrics[i]) = "borderline"
    /\ pc \in {"llm_judge", "finalize", "END", "returned"} =>
          \A i \in MetricIdx :
             Classified(qg.metrics[i]) # "borderline" =>
                /\ qg.metrics[i].status = Classified(qg.metrics[i])
                /\ qg.metrics[i].llm_verdict = ""
    /\ pc = "returned" =>
          \A i \in MetricIdx :
             LET m == qg.metrics[i]
                 e == qg_result.images[m.image_id]
             IN  /\ e.blur_score = m.blur_score
                 /\ e.darkness_score = m.darkness_score
                 /\ e.sharpness_score = m.sharpness_score

\* C4 (steps): once the images are scored, no step changes a score
C4_Step ==
    pc # "compute_metrics" =>
        /\ Len(qg'.metrics) = Len(qg.metrics)
        /\ \A i \in MetricIdx :
              /\ qg'.metrics[i].image_id = qg.metrics[i].image_id
              /\ qg'.metrics[i].blur_score = qg.metrics[i].blur_score
              /\ qg'.metrics[i].darkness_score = qg.metrics[i].darkness_score
              /\ qg'.metrics[i].sharpness_score = qg.metrics[i].sharpness_score

\* C4: the model-judge stage is entered iff at least one image is borderline
\* after classification, the vision model is called only for borderline
\* images, and an image the thresholds classified 'accepted' or 'rejected'
\* keeps that status and its three scores until the end of the run.
C4_EscalateOnlyBorderline == []C4_State /\ [][C4_Step]_vars

\* C4 witness: the model rejected a borderline image while an image the
\* thresholds accepted and one they rejected kept their status
C4_Witness ==
    /\ pc = "returned"
    /\ \E i, j \in MetricIdx :
          /\ Classified(qg.metrics[i]) = "borderline"
          /\ qg.metrics[i].status = "rejected"
          /\ Classified(qg.metrics[j]) = "accepted"
          /\ qg.metrics[j].status = "accepted"
          /\ Len(llm_calls) = 1

\* C5: when the model call for a borderline image succeeds, the image is
\* 'accepted' if the model's answer is ACCEPT and 'rejected' for any other
\* answer, such as REJECT, 'UNACCEPTABLE' or 'I cannot accept this photo'.
C5_VerdictParse ==
    JudgeDone =>
        \A k \in 1..Len(llm_calls) :
           ~llm_calls[k].outcome.raised =>
              \A i \in MetricIdx :
                 qg.metrics[i].image_id = llm_calls[k].image_id =>
                    qg.metrics[i].status =
                       IF upper(strip(llm_calls[k].outcome.text)) = R_ACCEPT
                       THEN "accepted" ELSE "rejected"

\* The number of metrics of m below their thresholds
FailingMetrics(m) ==
    (IF m.blur_score < qg.config.blur_threshold THEN 1 ELSE 0)
    + (IF m.darkness_score < qg.config.darkness_threshold THEN 1 ELSE 0)
    + (IF m.sharpness_score < qg.config.sharpness_threshold THEN 1 ELSE 0)

\* C6: with a non-negative margin, every image of the result whose status is
\* 'rejected' (by a hard threshold or by the model) carries a non-empty
\* reasons list with exactly one entry per metric below its threshold, and no
\* image with another status carries reasons.
C6_RejectionReasons ==
    (pc = "returned" /\ qg.config.borderline_margin >= 0) =>
        \A i \in MetricIdx :
           LET m == qg.metrics[i]
               e == qg_result.images[m.image_id]
           IN  /\ e.status = "rejected" =>
                     /\ e.has_reasons
                     /\ e.reasons # <<>>
                     /\ Len(e.reasons) = FailingMetrics(m)
                     /\ ("Too blurry" \in Range(e.reasons)
                            <=> m.blur_score < qg.config.blur_threshold)
                     /\ ("Too dark" \in Range(e.reasons)
                            <=> m.darkness_score < qg.config.darkness_threshold)
                     /\ ("Low detail" \in Range(e.reasons)
                            <=> m.sharpness_score < qg.config.sharpness_threshold)
               /\ e.status # "rejected" => ~e.has_reasons

\* C6 witness: the result holds an image the model rejected, whose only
\* failing metric is the sharpness, and an image the thresholds rejected
C6_Witness ==
    /\ pc = "returned"
    /\ qg.config.borderline_margin >= 0
    /\ \E i, j \in MetricIdx :
          /\ Classified(qg.metrics[i]) = "borderline"
          /\ qg_result.images[qg.metrics[i].image_id].status = "rejected"
          /\ qg_result.images[qg.metrics[i].image_id].reasons = <<"Low detail">>
          /\ Classified(qg.metrics[j]) = "rejected"
          /\ qg_result.images[qg.metrics[j].image_id].reasons # <<>>

---------------------------------------------------------------------------
(* Coverage aggregator: app/agents/coverage_review/tools.py *)

I_wall_left == <<"w","a","l","l","-","l","e","f","t">>
I_wall_right == <<"w","a","l","l","-","r","i","g","h","t">>
I_wall_far == <<"w","a","l","l","-","f","a","r">>
I_wall_near == <<"w","a","l","l","-","n","e","a","r">>
I_floor == <<"f","l","o","o","r">>
I_ceiling == <<"c","e","i","l","i","n","g">>
I_door == <<"d","o","o","r">>
I_window == <<"w","i","n","d","o","w">>
I_countertop == <<"c","o","u","n","t","e","r","t","o","p">>
I_appliances == <<"a","p","p","l","i","a","n","c","e","s">>
I_closet == <<"c","l","o","s","e","t">>
I_fixtures == <<"f","i","x","t","u","r","e","s">>
I_mirror == <<"m","i","r","r","o","r">>

K_default == <<"d","e","f","a","u","l","t">>
K_living_room == <<"L","i","v","i","n","g"," ","R","o","o","m">>
K_kitchen == <<"K","i","t","c","h","e","n">>
K_bedroom == <<"B","e","d","r","o","o","m">>
K_bathroom == <<"B","a","t","h","r","o","o","m">>
K_hallway == <<"H","a","l","l","w","a","y">>

\* ROOM_CHECKLISTS, as (key, checklist) pairs in the dict's order
ROOM_CHECKLISTS ==
    << <<K_default, <<I_wall_left, I_wall_right, I_wall_far, I_wall_near,
                      I_floor, I_ceiling, I_door>> >>,
       <<K_living_room, <<I_wall_left, I_wall_right, I_wall_far, I_wall_near,
                          I_floor, I_ceiling, I_door, I_window>> >>,
       <<K_kitchen, <<I_wall_left, I_wall_right, I_wall_far, I_wall_near,
                      I_floor, I_ceiling, I_door, I_countertop, I_appliances>> >>,
       <<K_bedroom, <<I_wall_left, I_wall_right, I_wall_far, I_wall_near,
                      I_floor, I_ceiling, I_door, I_window, I_closet>> >>,
       <<K_bathroom, <<I_wall_left, I_wall_right, I_wall_far, I_wall_near,
                       I_floor, I_ceiling, I_door, I_fixtures, I_mirror>> >>,
       <<K_hallway, <<I_wall_left, I_wall_right, I_floor, I_ceiling, I_door>> >> >>

\* get_checklist: exact key, then the first key contained in the room type
\* (compared in lower case), then the default checklist
get_checklist(room_type) ==
    LET n == Len(ROOM_CHECKLISTS)
        exact == {i \in 1..n : ROOM_CHECKLISTS[i][1] = room_type}
        partial == {i \in 1..n : contains(lower(room_type), lower(ROOM_CHECKLISTS[i][1]))}
        first(S) == CHOOSE i \in S : \A j \in S : i <= j
    IN  IF exact # {} THEN ROOM_CHECKLISTS[first(exact)][2]
        ELSE IF partial # {} THEN ROOM_CHECKLISTS[first(partial)][2]
        ELSE ROOM_CHECKLISTS[1][2]

\* The keyword tests of aggregate_coverage
W_counter == <<"c","o","u","n","t","e","r">>
W_appliance == <<"a","p","p","l","i","a","n","c","e">>
W_stove == <<"s","t","o","v","e">>
W_fridge == <<"f","r","i","d","g","e">>
W_closet == <<"c","l","o","s","e","t">>
W_mirror == <<"m","i","r","r","o","r">>
W_fixture == <<"f","i","x","t","u","r","e">>
W_sink == <<"s","i","n","k">>
W_toilet == <<"t","o","i","l","e","t">>
W_tub == <<"t","u","b">>

\* What one coverage-area string adds to `covered`: the first checklist item
\* that contains it or is contained in it (the loop breaks there), and the
\* items of the keyword rules
area_adds(area, checklist) ==
    LET area_lower == strip(lower(area))
        hits == {i \in 1..Len(checklist) :
                    \/ contains(area_lower, lower(checklist[i]))
                    \/ contains(lower(checklist[i]), area_lower)}
    IN  (IF hits = {} THEN {}
         ELSE {checklist[CHOOSE i \in hits : \A j \in hits : i <= j]})
        \cup (IF contains(area_lower, W_counter) THEN {I_countertop} ELSE {})
        \cup (IF \/ contains(area_lower, W_appliance)
                 \/ contains(area_lower, W_stove)
                 \/ contains(area_lower, W_fridge)
              THEN {I_appliances} ELSE {})
        \cup (IF contains(area_lower, W_closet) THEN {I_closet} ELSE {})
        \cup (IF contains(area_lower, W_mirror) THEN {I_mirror} ELSE {})
        \cup (IF \/ contains(area_lower, W_fixture)
                 \/ contains(area_lower, W_sink)
                 \/ contains(area_lower, W_toilet)
                 \/ contains(area_lower, W_tub)
              THEN {I_fixtures} ELSE {})

\* What one visible_surfaces string adds: every checklist item it contains,
\* or whose part before the first "-" it starts with
surface_adds(surface, checklist) ==
    LET surface_lower == lower(surface)
    IN  {checklist[i] : i \in {j \in 1..Len(checklist) :
            \/ contains(surface_lower, lower(checklist[j]))
            \/ startswith(surface_lower, split_dash_first(checklist[j]))}}

\* for x in xs: covered |= adds(x)
RECURSIVE fold_areas(_, _, _)
fold_areas(areas, checklist, covered) ==
    IF areas = <<>> THEN covered
    ELSE fold_areas(Tail(areas), checklist, covered \cup area_adds(Head(areas), checklist))

RECURSIVE fold_surfaces(_, _, _)
fold_surfaces(surfaces, checklist, covered) ==
    IF surfaces = <<>> THEN covered
    ELSE fold_surfaces(Tail(surfaces), checklist,
                       covered \cup surface_adds(Head(surfaces), checklist))

\* The first loop over the summaries (coverage_areas)
RECURSIVE loop_coverage_areas(_, _, _)
loop_coverage_areas(summaries, checklist, covered) ==
    IF summaries = <<>> THEN covered
    ELSE loop_coverage_areas(Tail(summaries), checklist,
                             fold_areas(Head(summaries).coverage_areas, checklist, covered))

\* The second loop over the summaries (visible_surfaces)
RECURSIVE loop_visible_surfaces(_, _, _)
loop_visible_surfaces(summaries, checklist, covered) ==
    IF summaries = <<>> THEN covered
    ELSE loop_visible_surfaces(Tail(summaries), checklist,
                               fold_surfaces(Head(summaries).visible_surfaces, checklist,
                                             covered))

\* Code points order the characters of the model's texts
CodePoints == <<" ", "-", ".">> \o UpperChars \o LowerChars
ord == [c \in Chars |-> IndexIn(c, CodePoints)]

\* a < b for Python strings
RECURSIVE str_less(_, _)
str_less(a, b) ==
    IF b = <<>> THEN FALSE
    ELSE IF a = <<>> THEN TRUE
    ELSE IF ord[Head(a)] # ord[Head(b)] THEN ord[Head(a)] < ord[Head(b)]
    ELSE str_less(Tail(a), Tail(b))

\* sorted(set of strings)
RECURSIVE sorted(_)
sorted(S) ==
    IF S = {} THEN <<>>
    ELSE LET least == CHOOSE x \in S : \A y \in S \ {x} : str_less(x, y)
         IN  <<least>> \o sorted(S \ {least})

\* [item for item in checklist if item not in covered]
RECURSIVE items_not_in(_, _)
items_not_in(checklist, covered) ==
    IF checklist = <<>> THEN <<>>
    ELSE (IF Head(checklist) \in covered THEN <<>> ELSE <<Head(checklist)>>)
         \o items_not_in(Tail(checklist), covered)

\* round(k / n * 100, 1), in tenths of a percent (ties to even)
round_pct(k, n) ==
    LET q == (k * 1000) \div n
        r == (k * 1000) % n
    IN  IF 2 * r < n THEN q
        ELSE IF 2 * r > n THEN q + 1
        ELSE IF q % 2 = 0 THEN q ELSE q + 1

\* aggregate_coverage without the final intersection with the checklist
aggregate_coverage_no_filter(summaries, room_type) ==
    LET checklist == get_checklist(room_type)
        covered == loop_visible_surfaces(summaries, checklist,
                       loop_coverage_areas(summaries, checklist, {}))
        missing == items_not_in(checklist, covered)
    IN  [coverage_pct |-> IF checklist # <<>>
                          THEN round_pct(Cardinality(covered), Len(checklist))
                          ELSE 1000,
         covered |-> sorted(covered),
         missing |-> missing,
         checklist |-> checklist]

\* The number of summaries that add some checklist item
RECURSIVE count_covering(_, _)
count_covering(summaries, checklist) ==
    IF summaries = <<>> THEN 0
    ELSE (IF (loop_visible_surfaces(<<Head(summaries)>>, checklist,
                  loop_coverage_areas(<<Head(summaries)>>, checklist, {}))
              \cap Range(checklist)) # {} THEN 1 ELSE 0)
         + count_covering(Tail(summaries), checklist)

\* aggregate_coverage that counts covering summaries instead of covered items
aggregate_coverage_counting(summaries, room_type) ==
    LET checklist == get_checklist(room_type)
        found == loop_visible_surfaces(summaries, checklist,
                     loop_coverage_areas(summaries, checklist, {}))
        covered == found \cap Range(checklist)
        missing == items_not_in(checklist, covered)
        hits == count_covering(summaries, checklist)
    IN  [coverage_pct |-> round_pct(IF hits < Len(checklist) THEN hits ELSE Len(checklist),
                                    Len(checklist)),
         covered |-> sorted(covered),
         missing |-> missing,
         checklist |-> checklist]

aggregate_coverage(summaries, room_type) ==
    LET checklist == get_checklist(room_type)
        found == loop_visible_surfaces(summaries, checklist,
                     loop_coverage_areas(summaries, checklist, {}))
        covered == found \cap Range(checklist)
        missing == items_not_in(checklist, covered)
    IN  [coverage_pct |-> IF checklist # <<>>
                          THEN round_pct(Cardinality(covered), Len(checklist))
                          ELSE 1000,
         covered |-> sorted(covered),
         missing |-> missing,
         checklist |-> checklist]

---------------------------------------------------------------------------
(* aggregate_coverage called on its own, on summaries drawn from bounded sets *)

A_Wall_blank == <<" ","W","a","l","l"," ">>
A_floor_and_wall_far == <<"f","l","o","o","r"," ","a","n","d"," ","w","a","l","l","-","f","a","r">>
A_empty == <<>>
A_kitchen_counter == <<"k","i","t","c","h","e","n"," ","c","o","u","n","t","e","r">>
A_bathtub == <<"b","a","t","h","t","u","b">>
A_closet_door == <<"c","l","o","s","e","t"," ","d","o","o","r">>
V_Walls == <<"W","a","l","l","s">>

\* The coverage_areas and visible_surfaces lists a summary may hold
AreaStrings == {I_wall_left, A_Wall_blank, A_floor_and_wall_far, A_empty,
                A_kitchen_counter, A_bathtub, A_closet_door}
FullList == <<I_wall_left, I_wall_right, I_wall_far, I_wall_near, I_floor, I_ceiling, I_door>>
AreaLists == {<<>>} \cup {<<a>> : a \in AreaStrings} \cup {<<I_wall_left, I_floor>>, FullList}
SurfaceLists == {<<V_Walls>>}

\* Summaries as parse_summary_response and the hint fallback build them; the
\* aggregator reads coverage_areas and visible_surfaces only
SummaryInputs ==
    {[coverage_areas |-> a, visible_surfaces |-> <<>>, fixtures |-> <<>>] : a \in AreaLists}
    \cup {[coverage_areas |-> <<>>, visible_surfaces |-> v, fixtures |-> <<>>] :
            v \in SurfaceLists}
    \cup {[coverage_areas |-> <<>>, visible_surfaces |-> <<>>, fixtures |-> <<W_sink>>],
          [coverage_areas |-> <<A_bathtub>>, visible_surfaces |-> <<V_Walls>>,
           fixtures |-> <<I_mirror>>]}
SummaryLists == UNION {[1..n -> SummaryInputs] : n \in 0..MaxSummaries}

T_master_bedroom == <<"M","a","s","t","e","r"," ","B","e","d","r","o","o","m">>
T_garage == <<"G","a","r","a","g","e">>
RoomTypes == {K_kitchen, K_bathroom, K_hallway, T_master_bedroom, T_garage}

InitAgg ==
    /\ pc = "call"
    /\ trace = <<>>
    /\ keys = {}
    /\ llm_calls = <<>>
    /\ qg = IdleQG
    /\ qg_result = NoResult
    /\ cov = IdleCov
    /\ cov_result = NoResult
    /\ cmp = IdleCmp
    /\ cmp_result = NoResult
    /\ settings = IdleSettings
    /\ store = EmptyStore
    /\ fn_args \in [summaries : SummaryLists, room_type : RoomTypes]
    /\ fn_ret = NoResult

Call_aggregate_coverage ==
    /\ pc = "call"
    /\ fn_ret' = [returned |-> TRUE,
                  value |-> aggregate_coverage(fn_args.summaries, fn_args.room_type)]
    /\ pc' = "returned"
    /\ UNCHANGED <<trace, keys, llm_calls, qg, qg_result, cov, cov_result, fn_args,
                 cmp, cmp_result, settings, store>>

NextAgg == Call_aggregate_coverage

SpecAgg == InitAgg /\ [][NextAgg]_vars

---------------------------------------------------------------------------
(* Coverage review graph: app/agents/coverage_review/graph.py *)

H_center_from_door == <<"c","e","n","t","e","r","-","f","r","o","m","-","d","o","o","r">>
H_center_opposite_wall == <<"c","e","n","t","e","r","-","o","p","p","o","s","i","t","e","-","w","a","l","l">>
H_corner_left_near == <<"c","o","r","n","e","r","-","l","e","f","t","-","n","e","a","r">>
H_corner_right_near == <<"c","o","r","n","e","r","-","r","i","g","h","t","-","n","e","a","r">>
H_corner_left_far == <<"c","o","r","n","e","r","-","l","e","f","t","-","f","a","r">>
H_corner_right_far == <<"c","o","r","n","e","r","-","r","i","g","h","t","-","f","a","r">>
H_none == <<>>

\* _hint_to_areas: mapping.get(hint, [])
_hint_to_areas(hint) ==
    IF hint = H_center_from_door THEN <<I_wall_far, I_floor, I_door>>
    ELSE IF hint = H_center_opposite_wall THEN <<I_wall_near, I_door, I_floor>>
    ELSE IF hint = H_corner_left_near THEN <<I_wall_left, I_wall_near, H_corner_left_near>>
    ELSE IF hint = H_corner_right_near THEN <<I_wall_right, I_wall_near, H_corner_right_near>>
    ELSE IF hint = H_corner_left_far THEN <<I_wall_left, I_wall_far, H_corner_left_far>>
    ELSE IF hint = H_corner_right_far THEN <<I_wall_right, I_wall_far, H_corner_right_far>>
    ELSE IF hint = I_ceiling THEN <<I_ceiling>>
    ELSE IF hint = I_floor THEN <<I_floor>>
    ELSE <<>>

\* The summary built from an image's orientation hint
hint_summary(img) ==
    [image_id |-> img.id, visible_surfaces |-> <<>>, fixtures |-> <<>>,
     coverage_areas |-> _hint_to_areas(img.orientation_hint)]

\* A model response: JSON text that denotes `value`, or text that is not
\* JSON, given by its lines
Json(value) == [json |-> TRUE, value |-> value, lines |-> <<>>]
NotJson(lines) == [json |-> FALSE, value |-> <<>>, lines |-> lines]

\* parse_summary_response: the JSON object, or the empty summary
parse_summary_response(response) ==
    IF response.json THEN response.value
    ELSE [visible_surfaces |-> <<>>, fixtures |-> <<>>, coverage_areas |-> <<>>]

\* parsed["image_id"] = img["id"]
with_image_id(parsed, id) ==
    [image_id |-> id, visible_surfaces |-> parsed.visible_surfaces,
     fixtures |-> parsed.fixtures, coverage_areas |-> parsed.coverage_areas]

\* summarize_all_node: hint summaries when no provider is configured; else
\* one analyze_image call per image, with the hint summary when it raises
\* summarize_all_node's loop leaving out the images whose call raised
RECURSIVE summarize_images_skipping(_, _)
summarize_images_skipping(images, answer) ==
    IF images = <<>> THEN <<>>
    ELSE LET img == Head(images)
         IN  (IF answer[img.id].raised THEN <<>>
              ELSE <<with_image_id(parse_summary_response(answer[img.id].text), img.id)>>)
             \o summarize_images_skipping(Tail(images), answer)

RECURSIVE summarize_images(_, _)
summarize_images(images, answer) ==
    IF images = <<>> THEN <<>>
    ELSE LET img == Head(images)
         IN  <<IF answer[img.id].raised THEN hint_summary(img)
               ELSE with_image_id(parse_summary_response(answer[img.id].text), img.id)>>
             \o summarize_images(Tail(images), answer)

summarize_all_node(state, ks, answer) ==
    IF get_llm_provider(ks) = "RuntimeError"
    THEN [summaries |-> [i \in 1..Len(state.images) |-> hint_summary(state.images[i])]]
    ELSE [summaries |-> summarize_images(state.images, answer)]

\* The calls summarize_all_node makes to llm.analyze_image, in order
summarize_calls(images, answer) ==
    [i \in 1..Len(images) |->
        [site |-> "summarize_all", image_id |-> images[i].id,
         outcome |-> answer[images[i].id]]]

aggregate_node(state) ==
    [coverage |-> aggregate_coverage(state.summaries, state.room)]

\* decide_completeness with a strict comparison
decide_completeness_strict(state) ==
    IF state.coverage.coverage_pct > state.config.min_coverage_pct
    THEN "complete" ELSE "generate_instructions"

decide_completeness(state) ==
    IF state.coverage.coverage_pct >= state.config.min_coverage_pct
    THEN "complete" ELSE "generate_instructions"

complete_node(state) == [complete |-> TRUE, instructions |-> <<>>]

P_Take_a_photo_showing_the == <<"T","a","k","e"," ","a"," ","p","h","o","t","o"," ","s","h","o","w","i","n","g"," ","t","h","e"," ">>
P_area == <<" ","a","r","e","a">>

\* missing[:3]
first_three(seq) == SubSeq(seq, 1, IF Len(seq) < 3 THEN Len(seq) ELSE 3)

\* f"Take a photo showing the {area} area" for area in missing[:3]
basic_instructions(missing) ==
    [i \in 1..Len(first_three(missing)) |->
        P_Take_a_photo_showing_the \o missing[i] \o P_area]

\* line.lstrip("0123456789.-) ")
LstripChars == {"0", "1", "2", "3", "4", "5", "6", "7", "8", "9", ".", "-", ")", " "}
RECURSIVE lstrip_numbering(_)
lstrip_numbering(line) ==
    IF line # <<>> /\ Head(line) \in LstripChars THEN lstrip_numbering(Tail(line))
    ELSE line

\* [line.strip().lstrip(...) for line in lines if line.strip()]
RECURSIVE parse_lines(_)
parse_lines(lines) ==
    IF lines = <<>> THEN <<>>
    ELSE (IF strip(Head(lines)) # <<>> THEN <<lstrip_numbering(strip(Head(lines)))>>
          ELSE <<>>)
         \o parse_lines(Tail(lines))

\* parse_instructions_response: the JSON list, or the non-blank lines
parse_instructions_response(response) ==
    IF response.json THEN response.value ELSE parse_lines(response.lines)

\* generate_instructions_node that returns whatever the model gave
generate_instructions_node_no_fallback(state, ks, outcome) ==
    LET basic == basic_instructions(state.coverage.missing)
        instructions == parse_instructions_response(outcome.text)
    IN  IF get_llm_provider(ks) # "RuntimeError" /\ ~outcome.raised
        THEN [complete |-> FALSE, instructions |-> instructions]
        ELSE [complete |-> FALSE, instructions |-> basic]

\* generate_instructions_node: the model's instructions when it gives any,
\* the basic ones when it gives none, raises, or is not configured
generate_instructions_node(state, ks, outcome) ==
    LET basic == basic_instructions(state.coverage.missing)
        instructions == parse_instructions_response(outcome.text)
    IN  IF get_llm_provider(ks) # "RuntimeError" /\ ~outcome.raised /\ instructions # <<>>
        THEN [complete |-> FALSE, instructions |-> instructions]
        ELSE [complete |-> FALSE, instructions |-> basic]

\* The dict run_coverage_review returns
run_coverage_review_return(state) ==
    [returned |-> TRUE,
     coverage_pct |-> state.coverage.coverage_pct,
     complete |-> state.complete,
     covered_areas |-> state.coverage.covered,
     missing_areas |-> state.coverage.missing,
     instructions |-> state.instructions]

---------------------------------------------------------------------------
(* One run of run_coverage_review *)

\* capture.images with their orientation hints
H_selfie == <<"s","e","l","f","i","e">>
Hints == {I_floor, H_center_from_door, H_none, H_selfie}
HintedImageLists ==
    UNION {{[i \in 1..n |-> [id |-> i, orientation_hint |-> h[i]]] : h \in [1..n -> Hints]} :
              n \in 0..MaxImages}

CovRooms == {K_hallway, T_garage}

\* settings.coverage.min_coverage_pct, in tenths of a percent
MinCoveragePcts == {0, 400, 800, 1000}

\* What llm.analyze_image may do for one image
SummarizeOutcomes ==
    {Raised,
     Returned(NotJson(<<A_closet_door>>)),
     Returned(Json([visible_surfaces |-> <<>>, fixtures |-> <<>>,
                    coverage_areas |-> FullList]))}

N_Stand_in_the_doorway == <<"S","t","a","n","d"," ","i","n"," ","t","h","e"," ","d","o","o","r","w","a","y">>
N_1_Face_the_far_wall == <<"1","."," ","F","a","c","e"," ","t","h","e"," ","f","a","r"," ","w","a","l","l">>

\* What llm.chat may do
ChatOutcomes ==
    {Raised,
     Returned(Json(<<>>)),
     Returned(Json(<<N_Stand_in_the_doorway>>)),
     Returned(NotJson(<<N_1_Face_the_far_wall, <<" ">> >>)),
     Returned(NotJson(<< <<" ">> >>))}

\* "coverage": {} in the initial state, read with .get and its defaults
EmptyCoverage == [coverage_pct |-> 0, covered |-> <<>>, missing |-> <<>>, checklist |-> <<>>]

InitCov ==
    /\ pc = "summarize_all"
    /\ trace = <<>>
    /\ keys \in KeyConfigs
    /\ llm_calls = <<>>
    /\ qg = IdleQG
    /\ qg_result = NoResult
    /\ \E room \in CovRooms, imgs \in HintedImageLists, min \in MinCoveragePcts :
          cov = [room |-> room, images |-> imgs, summaries |-> <<>>,
                 coverage |-> EmptyCoverage, complete |-> FALSE, instructions |-> <<>>,
                 config |-> [min_coverage_pct |-> min]]
    /\ cov_result = NoResult
    /\ cmp = IdleCmp
    /\ cmp_result = NoResult
    /\ settings = IdleSettings
    /\ store = EmptyStore
    /\ fn_args = <<>>
    /\ fn_ret = NoResult

Cov_summarize_all ==
    /\ pc = "summarize_all"
    /\ \E answer \in [1..Len(cov.images) -> SummarizeOutcomes] :
          /\ cov' = Merge(cov, summarize_all_node(cov, keys, answer))
          /\ llm_calls' = IF get_llm_provider(keys) = "RuntimeError" THEN llm_calls
                          ELSE llm_calls \o summarize_calls(cov.images, answer)
    /\ pc' = "aggregate"
    /\ trace' = Append(trace, "summarize_all")
    /\ UNCHANGED <<keys, qg, qg_result, cov_result, fn_args, fn_ret,
                 cmp, cmp_result, settings, store>>

\* The aggregate node and the conditional edge that follows it
Cov_aggregate ==
    /\ pc = "aggregate"
    /\ cov' = Merge(cov, aggregate_node(cov))
    /\ pc' = decide_completeness(cov')
    /\ trace' = Append(trace, "aggregate")
    /\ UNCHANGED <<keys, llm_calls, qg, qg_result, cov_result, fn_args, fn_ret,
                 cmp, cmp_result, settings, store>>

Cov_complete ==
    /\ pc = "complete"
    /\ cov' = Merge(cov, complete_node(cov))
    /\ pc' = "END"
    /\ trace' = Append(trace, "complete")
    /\ UNCHANGED <<keys, llm_calls, qg, qg_result, cov_result, fn_args, fn_ret,
                 cmp, cmp_result, settings, store>>

Cov_generate_instructions ==
    /\ pc = "generate_instructions"
    /\ \E outcome \in ChatOutcomes :
          /\ cov' = Merge(cov, generate_instructions_node(cov, keys, outcome))
          /\ llm_calls' = IF get_llm_provider(keys) = "RuntimeError" THEN llm_calls
                          ELSE Append(llm_calls, [site |-> "generate_instructions",
                                                  image_id |-> 0, outcome |-> outcome])
    /\ pc' = "END"
    /\ trace' = Append(trace, "generate_instructions")
    /\ UNCHANGED <<keys, qg, qg_result, cov_result, fn_args, fn_ret,
                 cmp, cmp_result, settings, store>>

Cov_return ==
    /\ pc = "END"
    /\ cov_result' = run_coverage_review_return(cov)
    /\ pc' = "returned"
    /\ UNCHANGED <<trace, keys, llm_calls, qg, qg_result, cov, fn_args, fn_ret,
                 cmp, cmp_result, settings, store>>

NextCov ==
    \/ Cov_summarize_all
    \/ Cov_aggregate
    \/ Cov_complete
    \/ Cov_generate_instructions
    \/ Cov_return

SpecCov == InitCov /\ [][NextCov]_vars

---------------------------------------------------------------------------
(* Properties of aggregate_coverage *)

\* The position of an item in a checklist (0 when absent)
PosIn(item, checklist) == IndexIn(item, checklist)

\* C7: the result of aggregate_coverage has 'covered' inside the checklist
\* (items outside it are dropped), 'missing' exactly the checklist items not
\* covered, in checklist order, covered and missing partitioning the checklist,
\* and coverage_pct = |covered| / |checklist| x 100 rounded to one decimal: in
\* [0, 100], 100.0 exactly when nothing is missing, 0.0 for no summaries. On
\* the 7-item default checklist one summary naming all 7 items gives 100.0 and
\* no missing item, one naming only wall-left gives 14.3 and the other 6
\* items missing in checklist order.
C7_AggregateInvariants ==
    pc = "returned" =>
        LET r == fn_ret.value
            checklist == get_checklist(fn_args.room_type)
            n == Len(checklist)
            k == Len(r.covered)
            coveredSet == Range(r.covered)
            missingSet == Range(r.missing)
            only(areas) == <<[coverage_areas |-> areas, visible_surfaces |-> <<>>,
                              fixtures |-> <<>>]>>
        IN  /\ r.checklist = checklist
            /\ coveredSet \subseteq Range(checklist)
            /\ Cardinality(coveredSet) = k
            /\ missingSet = Range(checklist) \ coveredSet
            /\ \A i, j \in 1..Len(r.missing) :
                   i < j => PosIn(r.missing[i], checklist) < PosIn(r.missing[j], checklist)
            /\ coveredSet \cap missingSet = {}
            /\ coveredSet \cup missingSet = Range(checklist)
            /\ k + Len(r.missing) = n
            /\ 2 * r.coverage_pct * n - 2000 * k <= n
            /\ 2000 * k - 2 * r.coverage_pct * n <= n
            /\ r.coverage_pct >= 0
            /\ r.coverage_pct <= 1000
            /\ (r.coverage_pct = 1000) <=> (r.missing = <<>>)
            /\ fn_args.summaries = <<>> => r.coverage_pct = 0
            /\ (fn_args.room_type = T_garage /\ fn_args.summaries = only(FullList))
                   => (n = 7 /\ r.coverage_pct = 1000 /\ r.missing = <<>>)
            /\ (fn_args.room_type = T_garage /\ fn_args.summaries = only(<<I_wall_left>>))
                   => /\ r.coverage_pct = 143
                      /\ r.missing = <<I_wall_right, I_wall_far, I_wall_near,
                                       I_floor, I_ceiling, I_door>>

\* "closet door" in a hallway: door is covered, closet is outside the
\* checklist and dropped
C7_Witness ==
    /\ pc = "returned"
    /\ fn_args.room_type = K_hallway
    /\ fn_args.summaries = <<[coverage_areas |-> <<A_closet_door>>,
                              visible_surfaces |-> <<>>, fixtures |-> <<>>]>>
    /\ fn_ret.value.covered = <<I_door>>
    /\ fn_ret.value.coverage_pct = 200
    /\ fn_ret.value.missing = <<I_wall_left, I_wall_right, I_floor, I_ceiling>>

\* The fixed keyword rules: the normalised area string maps to the item
keyword_rule(area_lower, item) ==
    \/ item = I_countertop /\ contains(area_lower, W_counter)
    \/ item = I_appliances /\ (\/ contains(area_lower, W_appliance)
                               \/ contains(area_lower, W_stove)
                               \/ contains(area_lower, W_fridge))
    \/ item = I_closet /\ contains(area_lower, W_closet)
    \/ item = I_mirror /\ contains(area_lower, W_mirror)
    \/ item = I_fixtures /\ (\/ contains(area_lower, W_fixture)
                             \/ contains(area_lower, W_sink)
                             \/ contains(area_lower, W_toilet)
                             \/ contains(area_lower, W_tub))

\* C8: a checklist item is covered exactly when some summary's coverage-area
\* string, lower-cased and trimmed, contains the item or is contained in it
\* (every such item), or a keyword rule maps the string to the item; the
\* visible_surfaces and fixtures fields and empty coverage-area strings cover
\* nothing.
C8_CoveredExactly ==
    pc = "returned" =>
        LET checklist == get_checklist(fn_args.room_type)
            summaries == fn_args.summaries
        IN  \A item \in Range(checklist) :
                (item \in Range(fn_ret.value.covered)) <=>
                    \E i \in 1..Len(summaries) :
                        \E j \in 1..Len(summaries[i].coverage_areas) :
                            LET area_lower == strip(lower(summaries[i].coverage_areas[j]))
                            IN  \/ /\ area_lower # <<>>
                                   /\ \/ contains(area_lower, lower(item))
                                      \/ contains(lower(item), area_lower)
                                \/ keyword_rule(area_lower, item)

\* C9: aggregate_coverage is a function of the set of summaries and the room
\* type: a repeated call gives the same result, repeating a summary in the
\* list changes nothing, and neither does reordering the summaries.
C9_PureOfSummarySet ==
    pc = "returned" =>
        LET summaries == fn_args.summaries
            room_type == fn_args.room_type
            n == Len(summaries)
        IN  /\ aggregate_coverage(summaries, room_type) = fn_ret.value
            /\ \A i \in 1..n :
                   aggregate_coverage(Append(summaries, summaries[i]), room_type)
                       = fn_ret.value
            /\ \A p \in Permutations(1..n) :
                   aggregate_coverage([i \in 1..n |-> summaries[p[i]]], room_type)
                       = fn_ret.value

\* Two different summaries that cover different items
C9_Witness ==
    /\ pc = "returned"
    /\ Len(fn_args.summaries) = 2
    /\ fn_args.summaries[1] # fn_args.summaries[2]
    /\ LET one == aggregate_coverage(<<fn_args.summaries[1]>>, fn_args.room_type)
           two == aggregate_coverage(<<fn_args.summaries[2]>>, fn_args.room_type)
       IN  /\ one.covered # <<>>
           /\ two.covered # <<>>
           /\ one.covered # two.covered
           /\ fn_ret.value.covered # one.covered
           /\ fn_ret.value.covered # two.covered

---------------------------------------------------------------------------
(* Properties of the coverage review *)

\* C10: the coverage review ends complete if and only if the aggregated
\* coverage_pct is at least the configured minimum; when it ends complete the
\* instructions are empty and the generate_instructions stage, with its model
\* call, did not run.
C10_CompleteIffThreshold ==
    /\ pc = "generate_instructions"
           => cov.coverage.coverage_pct < cov.config.min_coverage_pct
    /\ pc \in {"END", "returned"} =>
           /\ cov.coverage = aggregate_coverage(cov.summaries, cov.room)
           /\ cov.complete <=> (cov.coverage.coverage_pct >= cov.config.min_coverage_pct)
           /\ cov.complete =>
                  /\ cov.instructions = <<>>
                  /\ "generate_instructions" \notin Range(trace)
                  /\ \A i \in 1..Len(llm_calls) : llm_calls[i].site # "generate_instructions"
           /\ ~cov.complete => "generate_instructions" \in Range(trace)
    /\ pc = "returned" =>
           /\ cov_result.complete = cov.complete
           /\ cov_result.instructions = cov.instructions
           /\ cov_result.coverage_pct = cov.coverage.coverage_pct

\* A run with a provider configured that ends complete with the coverage
\* exactly at the minimum
C10_Witness ==
    /\ pc = "returned"
    /\ keys # {}
    /\ cov_result.complete
    /\ cov_result.coverage_pct = cov.config.min_coverage_pct
    /\ cov_result.coverage_pct > 0
    /\ cov_result.missing_areas # <<>>
    /\ cov_result.instructions = <<>>

\* The outcome of the llm.chat call of generate_instructions, if it was made
ChatCalls == SelectSeq(llm_calls, LAMBDA c : c.site = "generate_instructions")

\* C11: a coverage review that ends with complete = false returns a non-empty
\* instructions list, whether no model is configured, the call raises, or the
\* model gives an empty list or blank text. When the model yields no
\* instruction the result is 'Take a photo showing the {area} area' for the
\* first up to 3 missing areas in checklist order; when it yields at least one,
\* the model's instructions are the result.
C11_NeverZeroInstructions ==
    (pc \in {"END", "returned"} /\ ~cov.complete) =>
        LET missing == cov.coverage.missing
            n == IF Len(missing) < 3 THEN Len(missing) ELSE 3
            fallback == [i \in 1..n |->
                            P_Take_a_photo_showing_the \o missing[i] \o P_area]
            yielded == IF ChatCalls = <<>> \/ ChatCalls[1].outcome.raised THEN <<>>
                       ELSE parse_instructions_response(ChatCalls[1].outcome.text)
        IN  /\ cov.instructions # <<>>
            /\ Len(ChatCalls) <= 1
            /\ (ChatCalls = <<>>) <=> (keys = {})
            /\ cov.instructions = IF yielded = <<>> THEN fallback ELSE yielded
            /\ (ChatCalls # <<>> /\ ChatCalls[1].outcome = Returned(Json(<<>>)))
                   => cov.instructions = fallback
            /\ (ChatCalls # <<>> /\ ChatCalls[1].outcome = Returned(NotJson(<< <<" ">> >>)))
                   => cov.instructions = fallback
            /\ pc = "returned" => cov_result.instructions = cov.instructions

\* The model answers with an empty list and three fallback instructions are
\* returned
C11_Witness ==
    /\ pc = "returned"
    /\ ~cov_result.complete
    /\ ChatCalls # <<>>
    /\ ChatCalls[1].outcome = Returned(Json(<<>>))
    /\ Len(cov_result.instructions) = 3
    /\ Len(cov_result.missing_areas) > 3

---------------------------------------------------------------------------
(* Language policy filter: app/agents/comparison/tools.py *)

R_candidate_difference == <<"c","a","n","d","i","d","a","t","e"," ","d","i","f","f","e","r","e","n","c","e">>

F_damage_confirmed == <<"d","a","m","a","g","e"," ","c","o","n","f","i","r","m","e","d">>
F_damage_detected == <<"d","a","m","a","g","e"," ","d","e","t","e","c","t","e","d">>
F_tenant_caused == <<"t","e","n","a","n","t"," ","c","a","u","s","e","d">>
F_fault == <<"f","a","u","l","t">>
F_liable == <<"l","i","a","b","l","e">>

\* LanguagePolicyConfig.forbidden, the default
DefaultForbidden == <<F_damage_confirmed, F_damage_detected, F_tenant_caused, F_fault, F_liable>>

\* text[n:]
drop(text, n) == SubSeq(text, n + 1, Len(text))

\* The compiled pattern matches at the head of the text: the escaped term,
\* compared letter by letter without regard to case
match_at(text, i, term) ==
    /\ i + Len(term) - 1 <= Len(text)
    /\ \A j \in 1..Len(term) : LowerChar[text[i + j - 1]] = LowerChar[term[j]]

match_at_head(text, term) == match_at(text, 1, term)

\* Where the leftmost match of the pattern starts, 0 when there is none
first_match(text, term) ==
    IF \E i \in 1..Len(text) : match_at(text, i, term)
    THEN CHOOSE i \in 1..Len(text) :
             match_at(text, i, term) /\ \A k \in 1..(i - 1) : ~match_at(text, k, term)
    ELSE 0

\* The same for an unescaped term, where "." matches any character
match_at_head_unescaped(text, term) ==
    /\ Len(term) <= Len(text)
    /\ \A j \in 1..Len(term) : term[j] = "." \/ LowerChar[text[j]] = LowerChar[term[j]]

\* pattern.sub(repl, text): non-overlapping matches, leftmost first
RECURSIVE pattern_sub(_, _, _)
pattern_sub(term, repl, text) ==
    IF term = <<>>
    THEN IF text = <<>> THEN repl
         ELSE repl \o <<Head(text)>> \o pattern_sub(term, repl, Tail(text))
    ELSE LET at == first_match(text, term)
         IN  IF at = 0 THEN text
             ELSE SubSeq(text, 1, at - 1) \o repl
                  \o pattern_sub(term, repl, drop(text, at + Len(term) - 1))

\* pattern.sub for a pattern compiled without re.escape
RECURSIVE pattern_sub_unescaped(_, _, _)
pattern_sub_unescaped(term, repl, text) ==
    IF term = <<>> \/ text = <<>> THEN text
    ELSE IF match_at_head_unescaped(text, term)
         THEN repl \o pattern_sub_unescaped(term, repl, drop(text, Len(term)))
         ELSE <<Head(text)>> \o pattern_sub_unescaped(term, repl, Tail(text))

\* pattern.sub(repl, text, count=1): only the first match
RECURSIVE pattern_sub_first(_, _, _)
pattern_sub_first(term, repl, text) ==
    IF term = <<>> \/ text = <<>> THEN text
    ELSE IF match_at_head(text, term) THEN repl \o drop(text, Len(term))
         ELSE <<Head(text)>> \o pattern_sub_first(term, repl, Tail(text))

\* apply_language_policy with unescaped patterns
RECURSIVE apply_language_policy_unescaped(_, _, _)
apply_language_policy_unescaped(text, forbidden, hedging) ==
    IF forbidden = <<>> THEN text
    ELSE apply_language_policy_unescaped(
             pattern_sub_unescaped(Head(forbidden), R_candidate_difference, text),
             Tail(forbidden), hedging)

\* apply_language_policy that replaces the first occurrence of each term only
RECURSIVE apply_language_policy_first(_, _, _)
apply_language_policy_first(text, forbidden, hedging) ==
    IF forbidden = <<>> THEN text
    ELSE apply_language_policy_first(
             pattern_sub_first(Head(forbidden), R_candidate_difference, text),
             Tail(forbidden), hedging)

\* for term in forbidden: result = pattern.sub("candidate difference", result)
RECURSIVE apply_language_policy(_, _, _)
apply_language_policy(text, forbidden, hedging) ==
    IF forbidden = <<>> THEN text
    ELSE apply_language_policy(pattern_sub(Head(forbidden), R_candidate_difference, text),
                               Tail(forbidden), hedging)

---------------------------------------------------------------------------
(* apply_language_policy called on its own, then again on its result *)

MaxPieces == 2

X_Fault == <<"F","a","u","l","t">>
X_damage == <<"d","a","m","a","g","e"," ">>
X_confirmed == <<"c","o","n","f","i","r","m","e","d">>
X_LIABLE == <<"L","I","A","B","L","E">>
X_ok == <<" ","o","k"," ">>
X_fa == <<"f","a">>
X_ult == <<"u","l","t">>
F_f_dot_ult == <<"f",".","u","l","t">>
F_candidate == <<"c","a","n","d","i","d","a","t","e">>
F_e_ok == <<"e"," ","o","k">>

\* Texts are concatenations of up to MaxPieces pieces
PolicyPieces == {X_Fault, X_damage, X_confirmed, X_LIABLE, X_ok, X_fa, X_ult, F_f_dot_ult}

RECURSIVE Concat(_)
Concat(pieces) == IF pieces = <<>> THEN <<>> ELSE Head(pieces) \o Concat(Tail(pieces))

PolicyTexts == {Concat(ps) : ps \in UNION {[1..n -> PolicyPieces] : n \in 0..MaxPieces}}

\* language_policy.forbidden as config.yaml may set it
ForbiddenLists == {DefaultForbidden, <<F_f_dot_ult>>, <<F_fault, F_candidate>>,
                   <<F_e_ok, F_fault>>}

\* LanguagePolicyConfig.required_hedging, the default
P_possible == <<"p","o","s","s","i","b","l","e">>
P_appears_to == <<"a","p","p","e","a","r","s"," ","t","o">>
P_may_indicate == <<"m","a","y"," ","i","n","d","i","c","a","t","e">>
DefaultHedging == <<R_candidate_difference, P_possible, P_appears_to, P_may_indicate>>

InitPolicy ==
    /\ pc = "call"
    /\ trace = <<>>
    /\ keys = {}
    /\ llm_calls = <<>>
    /\ qg = IdleQG
    /\ qg_result = NoResult
    /\ cov = IdleCov
    /\ cov_result = NoResult
    /\ cmp = IdleCmp
    /\ cmp_result = NoResult
    /\ settings = IdleSettings
    /\ store = EmptyStore
    /\ fn_args \in [text : PolicyTexts, forbidden : ForbiddenLists]
    /\ fn_ret = NoResult

Call_apply_language_policy ==
    /\ pc = "call"
    /\ fn_ret' = [returned |-> TRUE,
                  value |-> apply_language_policy(fn_args.text, fn_args.forbidden,
                                                  DefaultHedging)]
    /\ pc' = "returned"
    /\ UNCHANGED <<trace, keys, llm_calls, qg, qg_result, cov, cov_result, fn_args,
                 cmp, cmp_result, settings, store>>

\* The filter applied to the text it returned
Call_apply_language_policy_again ==
    /\ pc = "returned"
    /\ fn_ret' = [returned |-> TRUE,
                  first |-> fn_ret.value,
                  value |-> apply_language_policy(fn_ret.value, fn_args.forbidden,
                                                  DefaultHedging)]
    /\ pc' = "returned_again"
    /\ UNCHANGED <<trace, keys, llm_calls, qg, qg_result, cov, cov_result, fn_args,
                 cmp, cmp_result, settings, store>>

NextPolicy ==
    \/ Call_apply_language_policy
    \/ Call_apply_language_policy_again

SpecPolicy == InitPolicy /\ [][NextPolicy]_vars

---------------------------------------------------------------------------
(* Properties of the language policy filter *)

\* Some forbidden phrase occurs in the text, in any letter case
ContainsForbidden(text, forbidden) ==
    \E i \in 1..Len(forbidden) : contains(lower(text), lower(forbidden[i]))

\* The phrase can be laid over the replacement phrase so that they agree
\* wherever both have a letter: it occurs in it, contains it, or one ends as
\* the other begins
Overlaps(phrase, repl) ==
    LET a == lower(phrase)
        b == lower(repl)
    IN  \E d \in (1 - Len(a))..(Len(b) - 1) :
            \A i \in 1..Len(a) : (i + d \in 1..Len(b)) => a[i] = b[i + d]

ClearOfReplacement(forbidden) ==
    \A i \in 1..Len(forbidden) : ~Overlaps(forbidden[i], R_candidate_difference)

\* C12 as stated: for any text and any configured forbidden vocabulary the
\* output of apply_language_policy contains no forbidden phrase in any letter
\* case, and text without a forbidden phrase is returned unchanged.
C12_NoForbiddenAnyVocabulary ==
    pc = "returned" =>
        /\ ~ContainsForbidden(fn_ret.value, fn_args.forbidden)
        /\ ~ContainsForbidden(fn_args.text, fn_args.forbidden) => fn_ret.value = fn_args.text

\* C12, amended: when no forbidden phrase overlaps the replacement phrase
\* 'candidate difference' (true of the default vocabulary), the output
\* contains no forbidden phrase in any letter case; every occurrence is
\* replaced by 'candidate difference'; phrases are matched literally; text
\* without a forbidden phrase is returned unchanged.
C12_NoForbiddenPhrase ==
    (pc = "returned" /\ ClearOfReplacement(fn_args.forbidden)) =>
        /\ ~ContainsForbidden(fn_ret.value, fn_args.forbidden)
        /\ ~ContainsForbidden(fn_args.text, fn_args.forbidden) => fn_ret.value = fn_args.text
        /\ ContainsForbidden(fn_args.text, fn_args.forbidden)
               => contains(fn_ret.value, R_candidate_difference)
        /\ (fn_args.forbidden = DefaultForbidden /\ fn_args.text = X_Fault \o X_LIABLE)
               => fn_ret.value = R_candidate_difference \o R_candidate_difference
        /\ (fn_args.forbidden = DefaultForbidden /\ fn_args.text = X_damage \o X_confirmed)
               => fn_ret.value = R_candidate_difference
        /\ (fn_args.forbidden = <<F_f_dot_ult>> /\ fn_args.text = X_Fault \o F_f_dot_ult)
               => fn_ret.value = X_Fault \o R_candidate_difference

\* 'damage confirmed' under the default vocabulary
C12_Witness ==
    /\ pc = "returned"
    /\ fn_args.forbidden = DefaultForbidden
    /\ ClearOfReplacement(fn_args.forbidden)
    /\ fn_args.text = X_damage \o X_confirmed
    /\ fn_ret.value = R_candidate_difference

\* C13 as stated: for every text and every forbidden list that does not
\* contain the replacement phrase, filtering the filtered text changes nothing.
C13_IdempotentAnyList ==
    (pc = "returned_again"
     /\ \A i \in 1..Len(fn_args.forbidden) : fn_args.forbidden[i] # R_candidate_difference)
        => fn_ret.value = fn_ret.first

\* C13, amended: for every text and every forbidden list none of whose phrases
\* overlaps the replacement phrase, filtering the filtered text changes nothing.
C13_Idempotent ==
    (pc = "returned_again" /\ ClearOfReplacement(fn_args.forbidden))
        => fn_ret.value = fn_ret.first

\* A text the filter changes, filtered twice
C13_Witness ==
    /\ pc = "returned_again"
    /\ ClearOfReplacement(fn_args.forbidden)
    /\ fn_ret.first # fn_args.text
    /\ fn_ret.value = fn_ret.first
    /\ fn_args.text = X_Fault \o X_Fault

---------------------------------------------------------------------------
(* Model responses and parse_analysis_response: app/agents/comparison/tools.py *)

FENCE == <<"~","~","~">>
FENCE_JSON == <<"~","~","~","j","s","o","n">>

\* The least position at which sep occurs in text, 0 when it does not
find(text, sep) ==
    LET at == {i \in 1..(Len(text) - Len(sep) + 1) :
                  \A j \in 1..Len(sep) : text[i + j - 1] = sep[j]}
    IN  IF at = {} THEN 0 ELSE CHOOSE i \in at : \A k \in at : i <= k

\* text.split(sep)[0]
split_0(text, sep) ==
    IF find(text, sep) = 0 THEN text ELSE SubSeq(text, 1, find(text, sep) - 1)

\* text.split(sep)[1], for a text that contains sep
split_1(text, sep) ==
    split_0(drop(text, find(text, sep) + Len(sep) - 1), sep)

\* Values of json.loads: objects as records, arrays as sequences; numbers
\* with three decimals, in thousandths
JObject(fields) == [kind |-> "object", v |-> fields]
JArray(items) == [kind |-> "array", v |-> items]

A_tenant_at_FAULT == <<"T","h","e"," ","t","e","n","a","n","t"," ","i","s"," ","a","t"," ","F","A","U","L","T"," ","h","e","r","e">>
A_Possible_marks == <<"P","o","s","s","i","b","l","e"," ","m","a","r","k","s">>
A_No_visible_change == <<"N","o"," ","v","i","s","i","b","l","e"," ","c","h","a","n","g","e">>
A_Possible_stain == <<"P","o","s","s","i","b","l","e"," ","s","t","a","i","n">>
A_see_fenced_marks == <<"s","e","e"," ","~","~","~","x","~","~","~"," ","m","a","r","k","s">>

D_scuff == <<"{","\"","a","n","a","l","y","s","i","s","\"",":"," ","\"","T","h","e"," ","t","e","n","a","n","t"," ","i","s"," ","a","t"," ","F","A","U","L","T"," ","h","e","r","e","\"",","," ","\"","c","o","n","f","i","d","e","n","c","e","\"",":"," ","0",".","7",","," ","\"","r","e","a","s","o","n","_","c","o","d","e","s","\"",":"," ","[","\"","s","c","u","f","f","\"","]",","," ","\"","n","e","e","d","s","_","c","l","o","s","e","u","p","\"",":"," ","f","a","l","s","e","}">>
D_graffiti == <<"{","\"","a","n","a","l","y","s","i","s","\"",":"," ","\"","P","o","s","s","i","b","l","e"," ","m","a","r","k","s","\"",","," ","\"","c","o","n","f","i","d","e","n","c","e","\"",":"," ","1",".","5",","," ","\"","r","e","a","s","o","n","_","c","o","d","e","s","\"",":"," ","[","\"","g","r","a","f","f","i","t","i","\"","]",","," ","\"","n","e","e","d","s","_","c","l","o","s","e","u","p","\"",":"," ","t","r","u","e","}">>
D_low == <<"{","\"","a","n","a","l","y","s","i","s","\"",":"," ","\"","N","o"," ","v","i","s","i","b","l","e"," ","c","h","a","n","g","e","\"",","," ","\"","c","o","n","f","i","d","e","n","c","e","\"",":"," ","0",".","1",","," ","\"","r","e","a","s","o","n","_","c","o","d","e","s","\"",":"," ","[","\"","o","t","h","e","r","\"","]",","," ","\"","n","e","e","d","s","_","c","l","o","s","e","u","p","\"",":"," ","f","a","l","s","e","}">>
D_no_confidence == <<"{","\"","a","n","a","l","y","s","i","s","\"",":"," ","\"","P","o","s","s","i","b","l","e"," ","s","t","a","i","n","\"","}">>
D_array == <<"[","1","]">>
D_fenced_text == <<"{","\"","a","n","a","l","y","s","i","s","\"",":"," ","\"","s","e","e"," ","~","~","~","x","~","~","~"," ","m","a","r","k","s","\"",","," ","\"","c","o","n","f","i","d","e","n","c","e","\"",":"," ","0",".","9",","," ","\"","r","e","a","s","o","n","_","c","o","d","e","s","\"",":"," ","[","\"","s","c","u","f","f","\"","]",","," ","\"","n","e","e","d","s","_","c","l","o","s","e","u","p","\"",":"," ","f","a","l","s","e","}">>

\* The JSON documents of the model, each with the value it denotes
JsonDocuments ==
    << <<D_scuff, JObject([analysis |-> A_tenant_at_FAULT, confidence |-> 700,
                           reason_codes |-> <<"scuff">>, needs_closeup |-> FALSE])>>,
       <<D_graffiti, JObject([analysis |-> A_Possible_marks, confidence |-> 1500,
                              reason_codes |-> <<"graffiti">>, needs_closeup |-> TRUE])>>,
       <<D_low, JObject([analysis |-> A_No_visible_change, confidence |-> 100,
                         reason_codes |-> <<"other">>, needs_closeup |-> FALSE])>>,
       <<D_no_confidence, JObject([analysis |-> A_Possible_stain])>>,
       <<D_array, JArray(<<1>>)>>,
       <<D_fenced_text, JObject([analysis |-> A_see_fenced_marks, confidence |-> 900,
                                 reason_codes |-> <<"scuff">>, needs_closeup |-> FALSE])>> >>

\* json.loads: the value of the document, surrounding blanks ignored;
\* JSONDecodeError for any other text
json_loads(text) ==
    LET stripped == strip(text)
        hits == {i \in 1..Len(JsonDocuments) : JsonDocuments[i][1] = stripped}
    IN  IF hits = {} THEN [raised |-> "JSONDecodeError"]
        ELSE [raised |-> "", value |-> JsonDocuments[CHOOSE i \in hits : TRUE][2]]

\* response[:200]
AnalysisLimit == 200
truncate(text, n) == SubSeq(text, 1, IF Len(text) < n THEN Len(text) ELSE n)

\* The except branch of parse_analysis_response
default_analysis(response) ==
    JObject([analysis |-> truncate(response, AnalysisLimit), confidence |-> 300,
             reason_codes |-> <<"other">>, needs_closeup |-> TRUE])

\* The text handed to json.loads: what stands inside the first fence, if any
fenced_body(response) ==
    LET text == strip(response)
    IN  IF find(text, FENCE_JSON) > 0 THEN split_0(split_1(text, FENCE_JSON), FENCE)
        ELSE IF find(text, FENCE) > 0 THEN split_0(split_1(text, FENCE), FENCE)
        ELSE text

parse_analysis_response(response) ==
    LET loaded == json_loads(fenced_body(response))
    IN  IF loaded.raised = "" THEN loaded.value ELSE default_analysis(response)

---------------------------------------------------------------------------
(* parse_analysis_response called on its own *)

T_prose == <<"I"," ","t","h","i","n","k"," ","t","h","e"," ","w","a","l","l"," ","l","o","o","k","s"," ","t","h","e"," ","s","a","m","e",".">>
T_digits == <<"0","1","2","3","4","5","6","7","8","9">>
T_long == Concat([i \in 1..21 |-> T_digits])
T_Here == <<"H","e","r","e",":"," ","~","~","~","j","s","o","n"," ">>
T_done == <<"~","~","~"," ","d","o","n","e">>

Prefixes == {<<>>, <<" ">>, FENCE_JSON, FENCE, T_Here}
Bodies == {D_scuff, D_no_confidence, D_array, D_fenced_text, T_prose, T_long, <<>>}
Suffixes == {<<>>, <<" ">>, FENCE, T_done}
ResponseTexts == {pre \o body \o post : pre \in Prefixes, body \in Bodies, post \in Suffixes}

InitParse ==
    /\ pc = "call"
    /\ trace = <<>>
    /\ keys = {}
    /\ llm_calls = <<>>
    /\ qg = IdleQG
    /\ qg_result = NoResult
    /\ cov = IdleCov
    /\ cov_result = NoResult
    /\ cmp = IdleCmp
    /\ cmp_result = NoResult
    /\ settings = IdleSettings
    /\ store = EmptyStore
    /\ fn_args \in [response : ResponseTexts]
    /\ fn_ret = NoResult

Call_parse_analysis_response ==
    /\ pc = "call"
    /\ fn_ret' = [returned |-> TRUE, value |-> parse_analysis_response(fn_args.response)]
    /\ pc' = "returned"
    /\ UNCHANGED <<trace, keys, llm_calls, qg, qg_result, cov, cov_result, fn_args,
                 cmp, cmp_result, settings, store>>

NextParse == Call_parse_analysis_response

SpecParse == InitParse /\ [][NextParse]_vars

\* The response is a JSON document, bare or inside a fence, blanks aside
IsBareJson(response) == json_loads(response).raised = ""
Fenced(response, fence) ==
    LET text == strip(response)
    IN  SubSeq(text, Len(fence) + 1, Len(text) - Len(FENCE))
IsFencedJson(response, fence) ==
    LET text == strip(response)
    IN  /\ Len(text) >= Len(fence) + Len(FENCE)
        /\ startswith(text, fence)
        /\ SubSeq(text, Len(text) - Len(FENCE) + 1, Len(text)) = FENCE
        /\ json_loads(Fenced(response, fence)).raised = ""
HoldsNoJson(response) ==
    \A i \in 1..Len(JsonDocuments) : ~contains(response, JsonDocuments[i][1])

\* C19: parse_analysis_response never raises on a string: given JSON, bare or
\* inside a fence, it returns the parsed value; given text that is not JSON
\* (the empty string included) it returns the default {analysis: the first 200
\* characters of the text, confidence: 0.3, reason_codes: [other],
\* needs_closeup: true}.
C19_ParseAnalysis ==
    pc = "returned" =>
        LET response == fn_args.response
        IN  /\ IsBareJson(response) => fn_ret.value = json_loads(response).value
            /\ \A fence \in {FENCE, FENCE_JSON} :
                   IsFencedJson(response, fence)
                       => fn_ret.value = json_loads(Fenced(response, fence)).value
            /\ HoldsNoJson(response) =>
                   /\ fn_ret.value.kind = "object"
                   /\ fn_ret.value.v.analysis = truncate(response, 200)
                   /\ Len(fn_ret.value.v.analysis) <= 200
                   /\ fn_ret.value.v.confidence = 300
                   /\ fn_ret.value.v.reason_codes = <<"other">>
                   /\ fn_ret.value.v.needs_closeup = TRUE

---------------------------------------------------------------------------
(* Comparison graph: app/agents/comparison/graph.py *)

\* A dict as the sequence of its (key, value) entries in insertion order
dict_has(d, k) == \E i \in 1..Len(d) : d[i].key = k
dict_get(d, k) == d[CHOOSE i \in 1..Len(d) : d[i].key = k].value
dict_set(d, k, v) ==
    IF dict_has(d, k)
    THEN [i \in 1..Len(d) |-> IF d[i].key = k THEN [key |-> k, value |-> v] ELSE d[i]]
    ELSE Append(d, [key |-> k, value |-> v])
\* del that removes nothing
dict_del_nothing(d, k) == d

dict_del(d, k) == SelectSeq(d, LAMBDA e : e.key # k)

\* {img.get("orientation_hint", ""): img for img in mi}
RECURSIVE by_hint(_, _)
by_hint(imgs, d) ==
    IF imgs = <<>> THEN d
    ELSE by_hint(Tail(imgs), dict_set(d, Head(imgs).orientation_hint, Head(imgs)))

S_seq_match == <<"s","e","q","_","m","a","t","c","h">>

\* The pair of a move-in and a move-out image
pair_of(in_img, out_img, orientation) ==
    [move_in_path |-> in_img.file_path, move_out_path |-> out_img.file_path,
     orientation |-> orientation, move_in_id |-> in_img.id, move_out_id |-> out_img.id]

\* The first loop of pair_images_node: move-out images matched by hint
RECURSIVE hint_pass(_, _, _)
hint_pass(mo, mi_by_hint, pairs) ==
    IF mo = <<>> THEN [pairs |-> pairs, mi_by_hint |-> mi_by_hint]
    ELSE LET out_img == Head(mo)
             hint == out_img.orientation_hint
         IN  IF hint # <<>> /\ dict_has(mi_by_hint, hint)
             THEN hint_pass(Tail(mo), dict_del(mi_by_hint, hint),
                            Append(pairs, pair_of(dict_get(mi_by_hint, hint), out_img, hint)))
             ELSE hint_pass(Tail(mo), mi_by_hint, pairs)

\* sorted(imgs, key=seq): stable, ascending
RECURSIVE insert_by_seq(_, _)
insert_by_seq(img, done) ==
    IF done = <<>> THEN <<img>>
    ELSE IF Head(done).seq <= img.seq THEN <<Head(done)>> \o insert_by_seq(img, Tail(done))
    ELSE <<img>> \o done

RECURSIVE sorted_by_seq(_, _)
sorted_by_seq(imgs, done) ==
    IF imgs = <<>> THEN done
    ELSE sorted_by_seq(Tail(imgs), insert_by_seq(Head(imgs), done))

\* The second loop of pair_images_node: the i-th unpaired move-out image
\* with the i-th unpaired move-in image
seq_pass(unpaired_mi, unpaired_mo) ==
    LET n == IF Len(unpaired_mi) < Len(unpaired_mo) THEN Len(unpaired_mi)
             ELSE Len(unpaired_mo)
    IN  [i \in 1..n |-> pair_of(unpaired_mi[i], unpaired_mo[i], S_seq_match)]

pair_images_node(state) ==
    LET mi == state.move_in_images
        mo == state.move_out_images
        hinted == hint_pass(mo, by_hint(mi, <<>>), <<>>)
        left == [i \in 1..Len(hinted.mi_by_hint) |-> hinted.mi_by_hint[i].value]
        unpaired_mi == sorted_by_seq(left, <<>>)
        unpaired_mo ==
            sorted_by_seq(
                SelectSeq(mo, LAMBDA img :
                    ~\E i \in 1..Len(hinted.pairs) : hinted.pairs[i].move_out_id = img.id),
                <<>>)
    IN  [paired_images |-> hinted.pairs \o seq_pass(unpaired_mi, unpaired_mo)]

normalize_node(state) == [unchanged |-> TRUE]

\* regions.sort(key=area, reverse=True): stable, descending
RECURSIVE insert_by_area(_, _)
insert_by_area(region, done) ==
    IF done = <<>> THEN <<region>>
    ELSE IF Head(done).area >= region.area
         THEN <<Head(done)>> \o insert_by_area(region, Tail(done))
    ELSE <<region>> \o done

RECURSIVE sorted_by_area(_, _)
sorted_by_area(regions, done) ==
    IF regions = <<>> THEN done
    ELSE sorted_by_area(Tail(regions), insert_by_area(Head(regions), done))

\* A region of extract_candidate_regions with the fields of its pair
region_of_pair(region, pair, score) ==
    [x |-> region.x, y |-> region.y, w |-> region.w, h |-> region.h,
     area |-> region.area, ssim_delta |-> region.ssim_delta,
     pair_orientation |-> pair.orientation,
     move_in_path |-> pair.move_in_path, move_out_path |-> pair.move_out_path,
     move_in_id |-> pair.move_in_id, move_out_id |-> pair.move_out_id,
     ssim_score |-> score]

\* The loop of structural_diff_node; diff[i] is what the files of pair i
\* give: an exception, or the SSIM score and the regions of the diff map
RECURSIVE regions_of_pairs(_, _, _)
regions_of_pairs(pairs, diff, i) ==
    IF i > Len(pairs) THEN <<>>
    ELSE (IF diff[i].raised THEN <<>>
          ELSE [k \in 1..Len(diff[i].regions) |->
                    region_of_pair(diff[i].regions[k], pairs[i], diff[i].score)])
         \o regions_of_pairs(pairs, diff, i + 1)

\* structural_diff_node cutting the list without sorting it
structural_diff_node_unsorted(state, diff) ==
    [diff_regions |-> truncate(regions_of_pairs(state.paired_images, diff, 1),
                               state.config.max_candidates_per_room)]

structural_diff_node(state, diff) ==
    LET all_regions == sorted_by_area(regions_of_pairs(state.paired_images, diff, 1), <<>>)
        max_candidates == state.config.max_candidates_per_room
    IN  [diff_regions |-> truncate(all_regions, max_candidates)]

A_unavailable == <<"A","u","t","o","m","a","t","e","d"," ","a","n","a","l","y","s","i","s"," ","u","n","a","v","a","i","l","a","b","l","e"," ","-"," ","m","a","n","u","a","l"," ","r","e","v","i","e","w"," ","r","e","c","o","m","m","e","n","d","e","d">>
A_structural == <<"P","o","s","s","i","b","l","e"," ","c","h","a","n","g","e"," ","d","e","t","e","c","t","e","d"," ","b","y"," ","s","t","r","u","c","t","u","r","a","l"," ","c","o","m","p","a","r","i","s","o","n">>

\* crop_path: f"data/images/comparisons/{comparison_id}/candidate_{i}.jpg",
\* or "" (the empty sequence) when the crop could not be made
crop_path_of(comparison_id, i, saved) == IF saved THEN <<comparison_id, i>> ELSE <<>>

\* The no-model confidence without the cap
cv_confidence_uncapped(ssim_delta) == ssim_delta * 2

\* min(region["ssim_delta"] * 2, 0.9)
cv_confidence(ssim_delta) == IF ssim_delta * 2 < 900 THEN ssim_delta * 2 ELSE 900

\* The analysis of one region: from the model, from the except branch when
\* the call raises, or from the CV-only formula when no provider is configured
analysis_of(region, has_llm, outcome) ==
    IF has_llm
    THEN IF outcome.raised
         THEN JObject([analysis |-> A_unavailable, confidence |-> region.ssim_delta,
                       reason_codes |-> <<"other">>, needs_closeup |-> TRUE])
         ELSE parse_analysis_response(outcome.text)
    ELSE JObject([analysis |-> A_structural,
                  confidence |-> cv_confidence(region.ssim_delta),
                  reason_codes |-> <<"other">>, needs_closeup |-> TRUE])

\* The admission test with > in place of >=
admits_strict(confidence, min_conf) == confidence > min_conf

\* if analysis["confidence"] >= min_conf
admits(confidence, min_conf) == confidence >= min_conf

\* What reading analysis["confidence"], ["reason_codes"], ["analysis"] raises
admission_error(analysis, min_conf) ==
    IF analysis.kind # "object" THEN "TypeError"
    ELSE IF "confidence" \notin DOMAIN analysis.v THEN "KeyError"
    ELSE IF ~admits(analysis.v.confidence, min_conf) THEN ""
    ELSE IF "reason_codes" \notin DOMAIN analysis.v \/ "analysis" \notin DOMAIN analysis.v
         THEN "KeyError"
    ELSE ""

candidate_of(region, analysis, crop_path) ==
    [region |-> [x |-> region.x, y |-> region.y, w |-> region.w, h |-> region.h],
     confidence |-> analysis.v.confidence,
     reason_codes |-> analysis.v.reason_codes,
     analysis |-> analysis.v.analysis,
     needs_closeup |-> IF "needs_closeup" \in DOMAIN analysis.v
                       THEN analysis.v.needs_closeup ELSE FALSE,
     crop_path |-> crop_path,
     move_in_id |-> region.move_in_id,
     move_out_id |-> region.move_out_id]

\* The model call made for region i (counted from 0): analyze_image on the
\* crop when there is one, analyze_images on the two photos otherwise
analysis_call(region, i, answer) ==
    [site |-> "analyze_candidates", image_id |-> i,
     method |-> IF answer.crop_saved THEN "analyze_image" ELSE "analyze_images",
     outcome |-> answer.llm]

\* The loop of analyze_candidates_node over regions[i..]; answer[i] says
\* whether the crop of region i was saved and what the model call did. An
\* exception in the admission test ends the loop and the node.
RECURSIVE analyze_regions(_, _, _, _, _, _)
analyze_regions(state, has_llm, answer, i, candidates, calls) ==
    IF i > Len(state.diff_regions)
    THEN [raised |-> "", candidates |-> candidates, calls |-> calls]
    ELSE LET region == state.diff_regions[i]
             crop_path == crop_path_of(state.comparison_id, i - 1, answer[i].crop_saved)
             analysis == analysis_of(region, has_llm, answer[i].llm)
             made == IF has_llm THEN Append(calls, analysis_call(region, i - 1, answer[i]))
                     ELSE calls
             error == admission_error(analysis, state.config.min_candidate_confidence)
         IN  IF error # "" THEN [raised |-> error, candidates |-> candidates, calls |-> made]
             ELSE IF admits(analysis.v.confidence, state.config.min_candidate_confidence)
                  THEN analyze_regions(state, has_llm, answer, i + 1,
                           Append(candidates, candidate_of(region, analysis, crop_path)), made)
             ELSE analyze_regions(state, has_llm, answer, i + 1, candidates, made)

analyze_candidates_node(state, ks, answer) ==
    analyze_regions(state, get_llm_provider(ks) # "RuntimeError", answer, 1, <<>>, <<>>)

\* language_policy_node that drops the candidates whose text it rewrote
language_policy_node_dropping(state, conf) ==
    [candidates |->
        SelectSeq(state.candidates,
                  LAMBDA c : ~\E i \in 1..Len(conf.language_policy.forbidden) :
                                 contains(lower(c.analysis),
                                          lower(conf.language_policy.forbidden[i])))]

language_policy_node(state, conf) ==
    [candidates |->
        [i \in 1..Len(state.candidates) |->
            [state.candidates[i] EXCEPT
                !.analysis = apply_language_policy(state.candidates[i].analysis,
                                                   conf.language_policy.forbidden,
                                                   conf.language_policy.required_hedging)]]]

M_identified == <<"A"," ","c","a","n","d","i","d","a","t","e"," ","d","i","f","f","e","r","e","n","c","e"," ","w","a","s"," ","i","d","e","n","t","i","f","i","e","d"," ","i","n"," ","t","h","i","s"," ","a","r","e","a","."," ">>
M_indicates == <<"T","h","e"," ","a","n","a","l","y","s","i","s"," ","i","n","d","i","c","a","t","e","s",":"," ">>
M_confirm == <<"."," ","C","o","u","l","d"," ","y","o","u"," ","p","l","e","a","s","e"," ","c","o","n","f","i","r","m"," ","o","r"," ","p","r","o","v","i","d","e"," ","a","d","d","i","t","i","o","n","a","l"," ","c","o","n","t","e","x","t"," ","a","b","o","u","t"," ","t","h","i","s"," ","a","r","e","a","?">>

\* cand['analysis'][:150]
FollowupLimit == 150

_default_followup(cand) ==
    M_identified \o M_indicates \o truncate(cand.analysis, FollowupLimit) \o M_confirm

\* The message of one followup; reply is what llm.chat did for the candidate
followup_message(cand, has_llm, reply, conf) ==
    IF has_llm /\ ~reply.raised
    THEN apply_language_policy(reply.text, conf.language_policy.forbidden,
                               conf.language_policy.required_hedging)
    ELSE _default_followup(cand)

\* compose_followups_node numbering every followup 0 and asking for a
\* close-up every time
compose_followups_node_unpaired(state, ks, conf, reply) ==
    [followups |->
        [i \in 1..Len(state.candidates) |->
            [candidate_index |-> 0,
             message |-> followup_message(state.candidates[i],
                                          get_llm_provider(ks) # "RuntimeError",
                                          reply[i], conf),
             needs_closeup |-> TRUE]]]

compose_followups_node(state, ks, conf, reply) ==
    [followups |->
        [i \in 1..Len(state.candidates) |->
            [candidate_index |-> i - 1,
             message |-> followup_message(state.candidates[i],
                                          get_llm_provider(ks) # "RuntimeError",
                                          reply[i], conf),
             needs_closeup |-> state.candidates[i].needs_closeup]]]

\* The calls compose_followups_node makes to llm.chat, in order
followup_calls(candidates, reply) ==
    [i \in 1..Len(candidates) |->
        [site |-> "compose_followups", image_id |-> i - 1, method |-> "chat",
         outcome |-> reply[i]]]

\* crud.create_candidate, once per candidate of the final state
created_candidates(result) ==
    [i \in 1..Len(result.candidates) |->
        [comparison_id |-> result.comparison_id,
         region_json |-> result.candidates[i].region,
         confidence |-> result.candidates[i].confidence,
         reason_codes |-> result.candidates[i].reason_codes,
         crop_path |-> result.candidates[i].crop_path]]

\* The dict run_comparison returns
run_comparison_return(result) ==
    [returned |-> TRUE,
     status |-> "complete",
     pairs_analyzed |-> Len(result.paired_images),
     regions_found |-> Len(result.diff_regions),
     candidates |-> Len(result.candidates),
     followups |-> result.followups]

---------------------------------------------------------------------------
(* A comparison run: run_comparison on two captures of a room *)

Img(id, hint, seq) == [id |-> id, file_path |-> id, orientation_hint |-> hint, seq |-> seq]

\* The images of the move-in and of the move-out capture
CmpCaptures ==
    {[mi |-> <<>>, mo |-> <<>>],
     [mi |-> <<Img(1, I_floor, 0)>>, mo |-> <<Img(11, I_floor, 0)>>],
     [mi |-> <<Img(1, I_floor, 0), Img(2, H_none, 1)>>,
      mo |-> <<Img(11, H_none, 0), Img(12, I_floor, 1)>>]}

\* settings.comparison: the default of min_candidate_confidence is 0.3
ComparisonConfigs ==
    [structural_diff_threshold : {150},
     min_candidate_confidence : {200, 300},
     max_candidates_per_room : {1, 2}]

\* settings.language_policy: the default, and a vocabulary from config.yaml
F_confirm == <<"c","o","n","f","i","r","m">>
LanguagePolicies ==
    {[forbidden |-> DefaultForbidden, required_hedging |-> DefaultHedging],
     [forbidden |-> <<F_fault, F_confirm>>, required_hedging |-> DefaultHedging]}

\* Regions of a diff map: a large strong one and a small faint one
R_big == [x |-> 10, y |-> 20, w |-> 40, h |-> 30, area |-> 1200, ssim_delta |-> 500]
R_small == [x |-> 50, y |-> 60, w |-> 30, h |-> 20, area |-> 600, ssim_delta |-> 100]

\* What one pair gives in structural_diff_node: an exception (unreadable
\* file), or a score and the regions, largest first
Diffed(regions) == [raised |-> FALSE, score |-> 800, regions |-> regions]
DiffOutcomes ==
    {[raised |-> TRUE, score |-> 0, regions |-> <<>>],
     Diffed(<<>>), Diffed(<<R_big>>), Diffed(<<R_small>>), Diffed(<<R_big, R_small>>)}

\* What the analysis of one region meets: whether the crop could be saved,
\* and what the model call does
AnalyzeAnswers ==
    {[crop_saved |-> TRUE, llm |-> o] :
        o \in {Raised, Returned(D_scuff), Returned(D_graffiti), Returned(D_low),
               Returned(D_no_confidence), Returned(D_array), Returned(T_prose)}}
    \cup {[crop_saved |-> FALSE, llm |-> Returned(D_scuff)]}

\* What llm.chat does for one followup
M_neutral == <<"A"," ","c","a","n","d","i","d","a","t","e"," ","d","i","f","f","e","r","e","n","c","e"," ","m","a","y"," ","b","e"," ","v","i","s","i","b","l","e"," ","n","e","a","r"," ","t","h","e"," ","d","o","o","r","."," ","C","a","n"," ","y","o","u"," ","c","o","n","f","i","r","m","?">>
M_blame == <<"T","h","e"," ","t","e","n","a","n","t"," ","c","a","u","s","e","d"," ","t","h","i","s"," ","a","n","d"," ","i","s"," ","L","I","A","B","L","E",".">>
FollowupReplies == {Raised, Returned(M_neutral), Returned(M_blame)}

InitCmp ==
    /\ pc = "pair_images"
    /\ trace = <<>>
    /\ keys \in KeyConfigs
    /\ llm_calls = <<>>
    /\ qg = IdleQG
    /\ qg_result = NoResult
    /\ cov = IdleCov
    /\ cov_result = NoResult
    /\ \E capture \in CmpCaptures, config \in ComparisonConfigs :
          cmp = [comparison_id |-> "cmp1", room |-> K_kitchen,
                 move_in_images |-> capture.mi, move_out_images |-> capture.mo,
                 paired_images |-> <<>>, diff_regions |-> <<>>,
                 candidates |-> <<>>, followups |-> <<>>, config |-> config]
    /\ cmp_result = NoResult
    /\ \E policy \in LanguagePolicies : settings = [language_policy |-> policy]
    /\ store = EmptyStore
    /\ fn_args = <<>>
    /\ fn_ret = NoResult

Cmp_pair_images ==
    /\ pc = "pair_images"
    /\ cmp' = Merge(cmp, pair_images_node(cmp))
    /\ pc' = "normalize"
    /\ trace' = Append(trace, "pair_images")
    /\ UNCHANGED <<keys, llm_calls, qg, qg_result, cov, cov_result, fn_args, fn_ret,
                 cmp_result, settings, store>>

Cmp_normalize ==
    /\ pc = "normalize"
    /\ cmp' = Merge(cmp, normalize_node(cmp))
    /\ pc' = "structural_diff"
    /\ trace' = Append(trace, "normalize")
    /\ UNCHANGED <<keys, llm_calls, qg, qg_result, cov, cov_result, fn_args, fn_ret,
                 cmp_result, settings, store>>

\* fn_args keeps what the files of the pairs gave
Cmp_structural_diff ==
    /\ pc = "structural_diff"
    /\ \E diff \in [1..Len(cmp.paired_images) -> DiffOutcomes] :
          /\ cmp' = Merge(cmp, structural_diff_node(cmp, diff))
          /\ fn_args' = [diff |-> diff]
    /\ pc' = "analyze_candidates"
    /\ trace' = Append(trace, "structural_diff")
    /\ UNCHANGED <<keys, llm_calls, qg, qg_result, cov, cov_result, fn_ret,
                 cmp_result, settings, store>>

\* An exception that leaves analyze_candidates_node leaves graph.ainvoke and
\* run_comparison: nothing is stored and nothing is returned
Cmp_analyze_candidates ==
    /\ pc = "analyze_candidates"
    /\ \E answer \in [1..Len(cmp.diff_regions) -> AnalyzeAnswers] :
          LET node == analyze_candidates_node(cmp, keys, answer)
          IN  /\ llm_calls' = llm_calls \o node.calls
              /\ IF node.raised = ""
                 THEN /\ cmp' = Merge(cmp, [candidates |-> node.candidates])
                      /\ pc' = "language_policy"
                      /\ cmp_result' = cmp_result
                 ELSE /\ cmp' = cmp
                      /\ pc' = "raised"
                      /\ cmp_result' = [returned |-> FALSE, raised |-> node.raised]
    /\ trace' = Append(trace, "analyze_candidates")
    /\ UNCHANGED <<keys, qg, qg_result, cov, cov_result, fn_args, fn_ret, settings, store>>

Cmp_language_policy ==
    /\ pc = "language_policy"
    /\ cmp' = Merge(cmp, language_policy_node(cmp, settings))
    /\ pc' = "compose_followups"
    /\ trace' = Append(trace, "language_policy")
    /\ UNCHANGED <<keys, llm_calls, qg, qg_result, cov, cov_result, fn_args, fn_ret,
                 cmp_result, settings, store>>

Cmp_compose_followups ==
    /\ pc = "compose_followups"
    /\ \E reply \in [1..Len(cmp.candidates) -> FollowupReplies] :
          /\ cmp' = Merge(cmp, compose_followups_node(cmp, keys, settings, reply))
          /\ llm_calls' = IF get_llm_provider(keys) = "RuntimeError" THEN llm_calls
                          ELSE llm_calls \o followup_calls(cmp.candidates, reply)
    /\ pc' = "END"
    /\ trace' = Append(trace, "compose_followups")
    /\ UNCHANGED <<keys, qg, qg_result, cov, cov_result, fn_args, fn_ret,
                 cmp_result, settings, store>>

\* After graph.ainvoke: the rows are written, then the dict is returned
Cmp_return ==
    /\ pc = "END"
    /\ store' = [store EXCEPT !.candidates = @ \o created_candidates(cmp)]
    /\ cmp_result' = run_comparison_return(cmp)
    /\ pc' = "returned"
    /\ UNCHANGED <<trace, keys, llm_calls, qg, qg_result, cov, cov_result, cmp,
                 fn_args, fn_ret, settings>>

NextCmp ==
    \/ Cmp_pair_images
    \/ Cmp_normalize
    \/ Cmp_structural_diff
    \/ Cmp_analyze_candidates
    \/ Cmp_language_policy
    \/ Cmp_compose_followups
    \/ Cmp_return

SpecCmp == InitCmp /\ [][NextCmp]_vars

---------------------------------------------------------------------------
(* Properties of the comparison run *)

Forbidden == settings.language_policy.forbidden
AfterAnalysis == pc \in {"language_policy", "compose_followups", "END", "returned"}
AfterFollowups == pc \in {"END", "returned"}

\* C14: in the output of a comparison run no candidate's analysis and no
\* followup message contains a phrase of the configured forbidden vocabulary,
\* whether the message was written by the model or is the template.
C14_OutputPolicyFiltered ==
    AfterFollowups =>
        /\ \A i \in 1..Len(cmp.candidates) :
              ~ContainsForbidden(cmp.candidates[i].analysis, Forbidden)
        /\ \A i \in 1..Len(cmp.followups) :
              ~ContainsForbidden(cmp.followups[i].message, Forbidden)

\* The model call made for the i-th region kept by structural_diff_node
AnalysisCalls == SelectSeq(llm_calls, LAMBDA c : c.site = "analyze_candidates")

\* The confidence obtained for the i-th region: the no-model formula, the
\* dissimilarity proxy after a failed call, or the model's figure
ConfidenceObtained(i) ==
    LET delta == cmp.diff_regions[i].ssim_delta
    IN  IF keys = {} THEN (IF 2 * delta < 900 THEN 2 * delta ELSE 900)
        ELSE IF AnalysisCalls[i].outcome.raised THEN delta
        ELSE parse_analysis_response(AnalysisCalls[i].outcome.text).v.confidence

\* The candidate was made from the i-th region
FromRegion(cand, i) ==
    /\ cand.region = [x |-> cmp.diff_regions[i].x, y |-> cmp.diff_regions[i].y,
                      w |-> cmp.diff_regions[i].w, h |-> cmp.diff_regions[i].h]
    /\ cand.move_in_id = cmp.diff_regions[i].move_in_id
    /\ cand.move_out_id = cmp.diff_regions[i].move_out_id

\* The regions whose confidence reaches the minimum, in order
Admitted ==
    SelectSeq([i \in 1..Len(cmp.diff_regions) |-> i],
              LAMBDA i : ConfidenceObtained(i) >= cmp.config.min_candidate_confidence)

\* C15: once the analysis stage has ended, the candidates are exactly the
\* regions of the structural-diff stage whose confidence (from the model, the
\* failure fallback or the no-model formula) is >= min_candidate_confidence,
\* in the order of the regions and with that confidence.
C15_CandidateIffConfidence ==
    AfterAnalysis =>
        /\ Len(cmp.candidates) = Len(Admitted)
        /\ \A k \in 1..Len(Admitted) :
              /\ FromRegion(cmp.candidates[k], Admitted[k])
              /\ cmp.candidates[k].confidence = ConfidenceObtained(Admitted[k])

\* A run with a model where the first region is below the minimum and
\* dropped, and the second is exactly at the minimum and kept
C15_Witness ==
    /\ pc = "returned"
    /\ keys # {}
    /\ Len(cmp.diff_regions) = 2
    /\ ConfidenceObtained(1) < cmp.config.min_candidate_confidence
    /\ ConfidenceObtained(2) = cmp.config.min_candidate_confidence
    /\ Len(cmp.candidates) = 1
    /\ FromRegion(cmp.candidates[1], 2)

\* C16: once the followup stage has ended there is one followup per
\* candidate, in candidate order, followups[i].candidate_index is i (counted
\* from 0) and its needs_closeup is that of candidate i, on every message
\* path; the returned dict carries the same list.
C16_FollowupPairing ==
    AfterFollowups =>
        /\ Len(cmp.followups) = Len(cmp.candidates)
        /\ \A i \in 1..Len(cmp.followups) :
              /\ cmp.followups[i].candidate_index = i - 1
              /\ cmp.followups[i].needs_closeup = cmp.candidates[i].needs_closeup
        /\ pc = "returned" =>
              /\ cmp_result.followups = cmp.followups
              /\ cmp_result.candidates = Len(cmp.candidates)

\* The calls to llm.chat made for the followups
FollowupCalls == SelectSeq(llm_calls, LAMBDA c : c.site = "compose_followups")

\* A returned run with two candidates that differ in needs_closeup, the
\* first message from the template after a failed call, the second from the
\* model
C16_Witness ==
    /\ pc = "returned"
    /\ Len(cmp.candidates) = 2
    /\ ~cmp.candidates[1].needs_closeup
    /\ cmp.candidates[2].needs_closeup
    /\ Len(FollowupCalls) = 2
    /\ FollowupCalls[1].outcome.raised
    /\ ~FollowupCalls[2].outcome.raised
    /\ cmp_result.followups[2].candidate_index = 1

\* The reason codes of ANALYZE_CANDIDATE_PROMPT
ReasonVocabulary ==
    {"scuff", "stain", "hole", "crack", "discoloration", "missing_item",
     "added_item", "wear", "other"}

\* C17: every candidate has reason_codes within the fixed vocabulary and a
\* confidence between 0 and 1 (0..1000 thousandths); a code outside the
\* vocabulary has been mapped to "other".
C17_ReasonCodesAndConfidence ==
    AfterAnalysis =>
        \A k \in 1..Len(cmp.candidates) :
            /\ Range(cmp.candidates[k].reason_codes) \subseteq ReasonVocabulary
            /\ cmp.candidates[k].confidence \in 0..1000

\* The call for the i-th region failed, or its response holds no JSON
FailedOrUnparsed(i) ==
    \/ AnalysisCalls[i].outcome.raised
    \/ HoldsNoJson(AnalysisCalls[i].outcome.text)

\* C18: with a model configured, a region whose call failed or whose
\* response cannot be parsed is admitted exactly when its ssim_delta reaches
\* the minimum, and its candidate then has confidence = ssim_delta,
\* reason_codes = [other] and needs_closeup = true.
C18_FallbackOnProxy ==
    (AfterAnalysis /\ keys # {}) =>
        \A i \in 1..Len(cmp.diff_regions) :
            FailedOrUnparsed(i) =>
                /\ (cmp.diff_regions[i].ssim_delta >= cmp.config.min_candidate_confidence)
                      <=> (\E k \in 1..Len(cmp.candidates) : FromRegion(cmp.candidates[k], i))
                /\ \A k \in 1..Len(cmp.candidates) :
                      FromRegion(cmp.candidates[k], i) =>
                          /\ cmp.candidates[k].confidence = cmp.diff_regions[i].ssim_delta
                          /\ cmp.candidates[k].reason_codes = <<"other">>
                          /\ cmp.candidates[k].needs_closeup

\* C20: no response of the model aborts a comparison run: the analysis stage
\* never leaves by an exception, every region kept by the structural-diff
\* stage is analysed, and the run goes on to its end.
C20_MalformedNeverAborts ==
    /\ pc # "raised"
    /\ (AfterAnalysis /\ keys # {}) => Len(AnalysisCalls) = Len(cmp.diff_regions)

AfterDiff ==
    pc \in {"analyze_candidates", "language_policy", "compose_followups", "END",
            "returned", "raised"}

\* The regions of all pairs as the diff maps gave them, before the sort
AllRegions == regions_of_pairs(cmp.paired_images, fn_args.diff, 1)
Retained == Range(cmp.diff_regions)
Discarded == Range(AllRegions) \ Retained

\* C21: the regions of all pairs are sorted by area descending and cut to
\* max_candidates_per_room before the first model call: the retained list is
\* the first max_candidates_per_room regions at most, in descending area,
\* no discarded region is larger than a retained one, and the analysis calls
\* and the candidates of the run each number at most max_candidates_per_room.
C21_TopRegionsBeforeModel ==
    /\ ~AfterDiff => llm_calls = <<>>
    /\ pc = "analyze_candidates" => llm_calls = <<>>
    /\ Len(AnalysisCalls) <= cmp.config.max_candidates_per_room
    /\ Len(cmp.candidates) <= cmp.config.max_candidates_per_room
    /\ AfterDiff =>
          /\ Len(cmp.diff_regions) <= cmp.config.max_candidates_per_room
          /\ Len(cmp.diff_regions) = Len(AllRegions)
                \/ Len(cmp.diff_regions) = cmp.config.max_candidates_per_room
          /\ Retained \subseteq Range(AllRegions)
          /\ Cardinality(Retained) = Len(cmp.diff_regions)
          /\ \A r \in Retained, d \in Discarded : r.area >= d.area
          /\ \A i, j \in 1..Len(cmp.diff_regions) :
                i < j => cmp.diff_regions[i].area >= cmp.diff_regions[j].area

\* A run with a model where four regions are found, two are kept, and the
\* second kept region is a large one of the second pair
C21_Witness ==
    /\ pc = "returned"
    /\ keys # {}
    /\ Len(AllRegions) = 4
    /\ cmp.config.max_candidates_per_room = 2
    /\ Cardinality(Discarded) = 2
    /\ AllRegions[2].area < AllRegions[3].area
    /\ cmp.diff_regions[2] = AllRegions[3]
    /\ Len(AnalysisCalls) = 2

---------------------------------------------------------------------------
(* pair_images_node called on its own *)

MaxPairImages == 2

PairHints == {I_floor, H_center_from_door, H_none}
PairSeqs == {0, 1}

\* The images of one capture: distinct ids counted from first, any hints
\* and sequence numbers
CaptureImages(first) ==
    UNION {{[i \in 1..n |-> Img(first + i, h[i], s[i])] :
               h \in [1..n -> PairHints], s \in [1..n -> PairSeqs]} :
           n \in 0..MaxPairImages}

InitPair ==
    /\ pc = "call"
    /\ trace = <<>>
    /\ keys = {}
    /\ llm_calls = <<>>
    /\ qg = IdleQG
    /\ qg_result = NoResult
    /\ cov = IdleCov
    /\ cov_result = NoResult
    /\ cmp = IdleCmp
    /\ cmp_result = NoResult
    /\ settings = IdleSettings
    /\ store = EmptyStore
    /\ \E mi \in CaptureImages(0), mo \in CaptureImages(10) :
          fn_args = [move_in_images |-> mi, move_out_images |-> mo]
    /\ fn_ret = NoResult

Call_pair_images_node ==
    /\ pc = "call"
    /\ fn_ret' = [returned |-> TRUE, value |-> pair_images_node(fn_args)]
    /\ pc' = "returned"
    /\ UNCHANGED <<trace, keys, llm_calls, qg, qg_result, cov, cov_result, fn_args,
                 cmp, cmp_result, settings, store>>

NextPair == Call_pair_images_node

SpecPair == InitPair /\ [][NextPair]_vars

Pairs == fn_ret.value.paired_images
ImageWithId(imgs, id) == imgs[CHOOSE i \in 1..Len(imgs) : imgs[i].id = id]
HasId(imgs, id) == \E i \in 1..Len(imgs) : imgs[i].id = id

\* C22: in the output of the pairer each move-in and each move-out image is
\* in at most one pair; a pair whose orientation is not "seq_match" joins two
\* images that both carry that non-empty hint, and every pair joins an image
\* of each side.
C22_PairsDisjointAndLabelled ==
    pc = "returned" =>
        /\ \A i, j \in 1..Len(Pairs) :
              i # j => /\ Pairs[i].move_in_id # Pairs[j].move_in_id
                       /\ Pairs[i].move_out_id # Pairs[j].move_out_id
        /\ \A i \in 1..Len(Pairs) :
              /\ HasId(fn_args.move_in_images, Pairs[i].move_in_id)
              /\ HasId(fn_args.move_out_images, Pairs[i].move_out_id)
              /\ Pairs[i].move_in_path =
                    ImageWithId(fn_args.move_in_images, Pairs[i].move_in_id).file_path
              /\ Pairs[i].move_out_path =
                    ImageWithId(fn_args.move_out_images, Pairs[i].move_out_id).file_path
              /\ Pairs[i].orientation # S_seq_match =>
                    /\ Pairs[i].orientation # <<>>
                    /\ ImageWithId(fn_args.move_in_images,
                                   Pairs[i].move_in_id).orientation_hint = Pairs[i].orientation
                    /\ ImageWithId(fn_args.move_out_images,
                                   Pairs[i].move_out_id).orientation_hint = Pairs[i].orientation

\* Two images a side, one pair by hint and one by sequence
C22_Witness ==
    /\ pc = "returned"
    /\ Len(Pairs) = 2
    /\ Pairs[1].orientation = I_floor
    /\ Pairs[2].orientation = S_seq_match
    /\ Pairs[1].move_out_id = 12

PairedIn == {Pairs[i].move_in_id : i \in 1..Len(Pairs)}
PairedOut == {Pairs[i].move_out_id : i \in 1..Len(Pairs)}

\* C23: the pairer never leaves a move-in image and a move-out image both
\* unpaired and returns min(#move-in, #move-out) pairs, also when several
\* move-in images carry the same hint or no hint.
C23_NoneLeftOnBothSides ==
    pc = "returned" =>
        /\ Len(Pairs) = (IF Len(fn_args.move_in_images) < Len(fn_args.move_out_images)
                         THEN Len(fn_args.move_in_images)
                         ELSE Len(fn_args.move_out_images))
        /\ ~(/\ \E i \in 1..Len(fn_args.move_in_images) :
                   fn_args.move_in_images[i].id \notin PairedIn
             /\ \E i \in 1..Len(fn_args.move_out_images) :
                   fn_args.move_out_images[i].id \notin PairedOut)

---------------------------------------------------------------------------
(* The three pipelines side by side: one run of run_quality_gate, of        *)
(* run_coverage_review or of run_comparison                                 *)

InitRuns == InitQG \/ InitCov \/ InitCmp

\* The graph of the pipeline that was started takes its next step
NextPipelines ==
    \/ (qg # IdleQG /\ NextQG)
    \/ (cov # IdleCov /\ NextCov)
    \/ (cmp # IdleCmp /\ NextCmp)

\* Runs with no API key configured: get_llm_provider raises RuntimeError
InitNoModel == InitRuns /\ keys = {}

SpecNoModel == InitNoModel /\ [][NextPipelines]_vars

IsPrefix(s, t) == Len(s) <= Len(t) /\ \A i \in 1..Len(s) : s[i] = t[i]

\* The routes through the three graphs
QGRoutes ==
    {<<"compute_metrics", "evaluate", "finalize">>,
     <<"compute_metrics", "evaluate", "llm_judge", "finalize">>}
CovRoutes ==
    {<<"summarize_all", "aggregate", "complete">>,
     <<"summarize_all", "aggregate", "generate_instructions">>}
CmpRoutes ==
    {<<"pair_images", "normalize", "structural_diff", "analyze_candidates",
       "language_policy", "compose_followups">>}
Routes == IF qg # IdleQG THEN QGRoutes ELSE IF cov # IdleCov THEN CovRoutes ELSE CmpRoutes

\* The run stands at a stage of its graph, at END, or has returned
AtStageOrEnd == pc \in UNION {Range(route) : route \in Routes} \cup {"END", "returned"}

C24_State ==
    /\ keys = {}
    /\ llm_calls = <<>>
    /\ AtStageOrEnd
    /\ \E route \in Routes : IsPrefix(trace, route)
    /\ pc = "returned" =>
          /\ trace \in Routes
          /\ qg # IdleQG => qg_result.status \in {"passed", "failed"}
          /\ cov # IdleCov =>
                /\ cov_result.complete \in BOOLEAN
                /\ cov_result.coverage_pct \in 0..1000
                /\ cov_result.complete <=> (trace[3] = "complete")
          /\ cmp # IdleCmp =>
                /\ cmp_result.status = "complete"
                /\ cmp_result.candidates = Len(cmp.candidates)
                /\ Len(cmp_result.followups) = Len(cmp.candidates)
                /\ \A k \in 1..Len(cmp.candidates) :
                      \E i \in 1..Len(cmp.diff_regions) :
                          /\ FromRegion(cmp.candidates[k], i)
                          /\ cmp.candidates[k].confidence =
                                (IF 2 * cmp.diff_regions[i].ssim_delta < 900
                                 THEN 2 * cmp.diff_regions[i].ssim_delta ELSE 900)

\* Every step runs the stage the run stood at and moves on, or returns
C24_Step ==
    \/ /\ pc # "END"
       /\ trace' = Append(trace, pc)
       /\ pc' # pc
    \/ /\ pc = "END"
       /\ trace' = trace
       /\ pc' = "returned"

---------------------------------------------------------------------------
(* Runs that may be cancelled while a model call is awaited *)

\* The run stands at a stage that is about to await a model call
AtModelCall ==
    /\ keys # {}
    /\ \/ pc = "llm_judge"
       \/ pc = "summarize_all" /\ cov.images # <<>>
       \/ pc = "generate_instructions"
       \/ pc = "analyze_candidates" /\ cmp.diff_regions # <<>>
       \/ pc = "compose_followups" /\ cmp.candidates # <<>>

\* asyncio.CancelledError at the await: it is no Exception, so no node
\* catches it, and it leaves graph.ainvoke and the run function
Cancel_model_call ==
    /\ AtModelCall
    /\ pc' = "cancelled"
    /\ trace' = Append(trace, pc)
    /\ UNCHANGED <<keys, llm_calls, qg, qg_result, cov, cov_result, fn_args, fn_ret,
                 cmp, cmp_result, settings, store>>

NextStore == NextPipelines \/ Cancel_model_call

SpecStore == InitRuns /\ [][NextStore]_vars

SameButAnalysis(before, after) ==
    /\ Len(after) = Len(before)
    /\ \A k \in 1..Len(before) : [after[k] EXCEPT !.analysis = before[k].analysis] = before[k]

C26_Step ==
    /\ pc = "language_policy" => SameButAnalysis(cmp.candidates, cmp'.candidates)
    /\ pc \in {"compose_followups", "END"} => cmp'.candidates = cmp.candidates
    /\ pc' = "returned" /\ cmp # IdleCmp =>
          \A k \in 1..Len(cmp.candidates) :
              store'.candidates[k].confidence = cmp.candidates[k].confidence

\* C26: the language-policy stage and the followup stage change nothing in a
\* candidate but its analysis text: the number and order of the candidates
\* and each one's confidence, region, reason_codes, needs_closeup, crop_path
\* and image ids stay as they were at admission, so at every later point of
\* the run a candidate's confidence is the value that was compared with
\* min_candidate_confidence (and reached it).
C26_OnlyAnalysisChanges ==
    /\ [][C26_Step]_vars
    /\ [](AfterAnalysis =>
            \A k \in 1..Len(cmp.candidates) :
                /\ cmp.candidates[k].confidence >= cmp.config.min_candidate_confidence
                /\ \E i \in 1..Len(cmp.diff_regions) :
                      /\ FromRegion(cmp.candidates[k], i)
                      /\ cmp.candidates[k].confidence = ConfidenceObtained(i))

\* A returned run whose first candidate had its analysis rewritten by the
\* filter and kept the model's confidence, codes and close-up flag
C26_Witness ==
    /\ pc = "returned"
    /\ Len(cmp.candidates) = 2
    /\ contains(cmp.candidates[1].analysis, R_candidate_difference)
    /\ cmp.candidates[1].confidence = 700
    /\ cmp.candidates[1].reason_codes = <<"scuff">>
    /\ ~cmp.candidates[1].needs_closeup
    /\ cmp.candidates[1].crop_path # <<>>

\* The areas the orientation hints of the reviewed captures stand for
HintAreas ==
    [h \in Hints |->
        CASE h = I_floor -> <<I_floor>>
          [] h = H_center_from_door -> <<I_wall_far, I_floor, I_door>>
          [] OTHER -> <<>>]

\* The summary that rests on the hint alone
HeuristicSummary(img) ==
    [image_id |-> img.id, visible_surfaces |-> <<>>, fixtures |-> <<>>,
     coverage_areas |-> HintAreas[img.orientation_hint]]

\* The calls summarize_all_node made to llm.analyze_image
SummarizeCalls == SelectSeq(llm_calls, LAMBDA c : c.site = "summarize_all")

\* What the model's answer for an image says, with that image's id
ModelSummary(img, text) ==
    IF text.json
    THEN [image_id |-> img.id, visible_surfaces |-> text.value.visible_surfaces,
          fixtures |-> text.value.fixtures, coverage_areas |-> text.value.coverage_areas]
    ELSE [image_id |-> img.id, visible_surfaces |-> <<>>, fixtures |-> <<>>,
          coverage_areas |-> <<>>]

MaxMoveIns == 2

NoCompanySettings == [none |-> TRUE]
CompanySettings ==
    {NoCompanySettings, [llm_provider |-> "openai"], [llm_provider |-> "none"]}

\* _get_llm_provider: "openai" when the tenant has no settings row
_get_llm_provider(company_settings) ==
    IF company_settings = NoCompanySettings THEN "openai"
    ELSE company_settings.llm_provider

required_hints ==
    {H_center_from_door, H_center_opposite_wall, H_corner_left_near,
     H_corner_right_near, H_corner_left_far, H_corner_right_far, I_ceiling}

\* {img.orientation_hint for img in capture.images if img.orientation_hint}
captured_hints(images) ==
    {images[i].orientation_hint : i \in 1..Len(images)} \ {H_none}

\* all_required with any guided position standing for all of them
all_required_any(images) == required_hints \cap captured_hints(images) # {}

all_required(images) == required_hints \subseteq captured_hints(images)

final_status(coverage_result, images) ==
    IF coverage_result.complete \/ all_required(images) THEN "passed"
    ELSE "needs_coverage"

\* The first move-in capture of the room with status passed, 0 if none
RECURSIVE first_passed_move_in(_, _, _)
first_passed_move_in(mi_captures, room, i) ==
    IF i > Len(mi_captures) THEN 0
    ELSE IF mi_captures[i].room = room /\ mi_captures[i].status = "passed" THEN i
    ELSE first_passed_move_in(mi_captures, room, i + 1)

NoCapture == [none |-> TRUE]
NoComparison == [status |-> "none"]
NotRun == [run |-> FALSE]
StageRaised == [run |-> TRUE, raised |-> TRUE]

\* What the stages may give
QualityOutcomes ==
    {StageRaised} \cup {[run |-> TRUE, raised |-> FALSE, status |-> s] : s \in {"passed", "failed"}}
CoverageOutcomes ==
    {StageRaised} \cup {[run |-> TRUE, raised |-> FALSE, complete |-> c] : c \in BOOLEAN}
ComparisonOutcomes == {StageRaised, [run |-> TRUE, raised |-> FALSE]}

\* The images of the submitted capture: every guided position, every one but
\* the ceiling, one unguided image, none
GuidedOrder ==
    <<H_center_from_door, H_center_opposite_wall, H_corner_left_near,
      H_corner_right_near, H_corner_left_far, H_corner_right_far, I_ceiling>>
OrchImageLists ==
    {[i \in 1..n |-> [id |-> i, orientation_hint |-> GuidedOrder[i]]] : n \in {0, 6, 7}}
    \cup {<<[id |-> 1, orientation_hint |-> H_none]>>}

OrchRooms == {K_hallway, T_garage}
OrchCaptures ==
    {NoCapture} \cup {[room |-> r, images |-> imgs] : r \in {K_hallway}, imgs \in OrchImageLists}
ReviewFlags == {"None", "ai_review_complete", "manual_review"}
OrchSessions ==
    {[type |-> t, review_flag |-> f] : t \in {"move_in", "move_out"}, f \in ReviewFlags}
MoveInCaptures ==
    UNION {[1..n -> {[room |-> r, status |-> s] :
                        r \in OrchRooms, s \in {"passed", "needs_coverage"}}] :
              n \in 0..MaxMoveIns}

InitOrch ==
    /\ pc = "submit_capture"
    /\ trace = <<>>
    /\ keys = {}
    /\ llm_calls = <<>>
    /\ qg = IdleQG
    /\ qg_result = NoResult
    /\ cov = IdleCov
    /\ cov_result = NoResult
    /\ cmp = IdleCmp
    /\ cmp_result = NoResult
    /\ settings = IdleSettings
    /\ \E cs \in CompanySettings, cap \in OrchCaptures, s \in OrchSessions,
          mi \in MoveInCaptures :
          /\ fn_args = [company_settings |-> cs, capture |-> cap, session |-> s,
                        move_in_captures |-> mi]
          /\ store = [capture_status |-> "pending", review_flag |-> s.review_flag,
                      comparison |-> NoComparison]
    /\ fn_ret = [quality_result |-> NotRun, coverage_result |-> NotRun,
                 comparison_result |-> NotRun, events |-> <<>>]

\* submit_capture: 404 without the capture, 400 without images, else the
\* capture is set to processing and the background task is created
Orch_submit_capture ==
    /\ pc = "submit_capture"
    /\ IF fn_args.capture = NoCapture
       THEN pc' = "HTTP_404" /\ store' = store
       ELSE IF fn_args.capture.images = <<>>
       THEN pc' = "HTTP_400" /\ store' = store
       ELSE /\ store' = [store EXCEPT !.capture_status = "processing"]
            /\ pc' = "run_capture_pipeline"
    /\ UNCHANGED <<trace, keys, llm_calls, qg, qg_result, cov, cov_result, fn_args,
                 fn_ret, cmp, cmp_result, settings>>

\* run_capture_pipeline up to the try: a tenant with llm_provider "none" gets
\* the capture passed and the session flagged for manual review
Orch_run_capture_pipeline ==
    /\ pc = "run_capture_pipeline"
    /\ IF _get_llm_provider(fn_args.company_settings) = "none"
       THEN /\ store' = [store EXCEPT !.capture_status = "passed",
                                      !.review_flag = "manual_review"]
            /\ fn_ret' = [fn_ret EXCEPT !.events = Append(@, "pipeline_skipped")]
            /\ pc' = "done"
       ELSE /\ pc' = "run_quality_gate"
            /\ UNCHANGED <<store, fn_ret>>
    /\ UNCHANGED <<trace, keys, llm_calls, qg, qg_result, cov, cov_result, fn_args,
                 cmp, cmp_result, settings>>

\* Step 1: the quality gate; a failed gate ends the pipeline
Orch_run_quality_gate ==
    /\ pc = "run_quality_gate"
    /\ trace' = Append(trace, "run_quality_gate")
    /\ \E quality_result \in QualityOutcomes :
          /\ fn_ret' = [fn_ret EXCEPT !.quality_result = quality_result,
                                      !.events = IF quality_result.raised THEN @
                                                 ELSE Append(@, "quality_update")]
          /\ IF quality_result.raised
             THEN pc' = "except" /\ store' = store
             ELSE IF quality_result.status = "failed"
             THEN /\ store' = [store EXCEPT !.capture_status = "failed"]
                  /\ pc' = "done"
             ELSE pc' = "run_coverage_review" /\ store' = store
    /\ UNCHANGED <<keys, llm_calls, qg, qg_result, cov, cov_result, fn_args,
                 cmp, cmp_result, settings>>

\* Step 2: the coverage review, the final status and the review flag
Orch_run_coverage_review ==
    /\ pc = "run_coverage_review"
    /\ trace' = Append(trace, "run_coverage_review")
    /\ \E coverage_result \in CoverageOutcomes :
          /\ fn_ret' = [fn_ret EXCEPT !.coverage_result = coverage_result,
                                      !.events = IF coverage_result.raised THEN @
                                                 ELSE Append(@, "coverage_update")]
          /\ IF coverage_result.raised
             THEN pc' = "except" /\ store' = store
             ELSE LET status == final_status(coverage_result, fn_args.capture.images)
                  IN  /\ store' = [store EXCEPT !.capture_status = status,
                                                !.review_flag = "ai_review_complete"]
                      /\ pc' = IF status = "passed" THEN "_try_auto_comparison"
                               ELSE "done"
    /\ UNCHANGED <<keys, llm_calls, qg, qg_result, cov, cov_result, fn_args,
                 cmp, cmp_result, settings>>

\* Step 3: _try_auto_comparison creates a comparison for a move-out capture
\* with the first passed move-in capture of the same room
Orch_try_auto_comparison ==
    /\ pc = "_try_auto_comparison"
    /\ LET mi == first_passed_move_in(fn_args.move_in_captures, fn_args.capture.room, 1)
       IN  IF fn_args.session.type # "move_out" \/ mi = 0
           THEN pc' = "done" /\ store' = store
           ELSE /\ store' = [store EXCEPT !.comparison =
                                [room |-> fn_args.capture.room, move_in_capture_id |-> mi,
                                 status |-> "pending"]]
                /\ pc' = "run_comparison_pipeline"
    /\ UNCHANGED <<trace, keys, llm_calls, qg, qg_result, cov, cov_result, fn_args,
                 fn_ret, cmp, cmp_result, settings>>

\* run_comparison_pipeline sets the comparison to processing
Orch_run_comparison_pipeline ==
    /\ pc = "run_comparison_pipeline"
    /\ store' = [store EXCEPT !.comparison.status = "processing"]
    /\ pc' = "run_comparison"
    /\ UNCHANGED <<trace, keys, llm_calls, qg, qg_result, cov, cov_result, fn_args,
                 fn_ret, cmp, cmp_result, settings>>

\* ... awaits run_comparison and sets the comparison to complete
Orch_run_comparison ==
    /\ pc = "run_comparison"
    /\ trace' = Append(trace, "run_comparison")
    /\ \E result \in ComparisonOutcomes :
          /\ fn_ret' = [fn_ret EXCEPT !.comparison_result = result,
                                      !.events = IF result.raised THEN @
                                                 ELSE Append(@, "comparison_update")]
          /\ IF result.raised
             THEN pc' = "except" /\ store' = store
             ELSE /\ store' = [store EXCEPT !.comparison.status = "complete"]
                  /\ pc' = "done"
    /\ UNCHANGED <<keys, llm_calls, qg, qg_result, cov, cov_result, fn_args,
                 cmp, cmp_result, settings>>

\* except Exception of run_capture_pipeline: manual review, raise
Orch_except ==
    /\ pc = "except"
    /\ store' = [store EXCEPT !.review_flag = "manual_review"]
    /\ pc' = "_run_agents_except"
    /\ UNCHANGED <<trace, keys, llm_calls, qg, qg_result, cov, cov_result, fn_args,
                 fn_ret, cmp, cmp_result, settings>>

\* except Exception of _run_agents: the error event is broadcast
Orch_run_agents_except ==
    /\ pc = "_run_agents_except"
    /\ fn_ret' = [fn_ret EXCEPT !.events = Append(@, "error")]
    /\ pc' = "done"
    /\ UNCHANGED <<trace, keys, llm_calls, qg, qg_result, cov, cov_result, fn_args,
                 cmp, cmp_result, settings, store>>

NextOrch ==
    \/ Orch_submit_capture
    \/ Orch_run_capture_pipeline
    \/ Orch_run_quality_gate
    \/ Orch_run_coverage_review
    \/ Orch_try_auto_comparison
    \/ Orch_run_comparison_pipeline
    \/ Orch_run_comparison
    \/ Orch_except
    \/ Orch_run_agents_except

\* The event loop runs the background task to its end
SpecOrch == InitOrch /\ [][NextOrch]_vars /\ WF_vars(NextOrch)

\* The seven guided positions a capture must show
SevenPositions ==
    {H_center_from_door, H_center_opposite_wall, H_corner_left_near,
     H_corner_right_near, H_corner_left_far, H_corner_right_far, I_ceiling}

\* The hints of the submitted capture's images
SubmittedHints ==
    {fn_args.capture.images[i].orientation_hint : i \in 1..Len(fn_args.capture.images)}

Started(stage) == \E i \in 1..Len(trace) : trace[i] = stage

\* C29: run_capture_pipeline runs quality gate, coverage review, comparison in
\* this order, each gated by the one before. Coverage review starts only
\* after the gate returned a status other than 'failed'. When the gate
\* returns 'failed' the capture becomes 'failed', coverage review and
\* comparison are never started and the session's review flag stays as it
\* was. A comparison is started only after the capture's final status is
\* 'passed' (coverage complete, or all seven guided positions captured), and
\* only for a move-out session with a passed move-in capture of the same room.
C29_StagesGated ==
    /\ IsPrefix(trace, <<"run_quality_gate", "run_coverage_review", "run_comparison">>)
    /\ Started("run_coverage_review") =>
          /\ fn_ret.quality_result.run /\ ~fn_ret.quality_result.raised
          /\ fn_ret.quality_result.status # "failed"
    /\ (fn_ret.quality_result.run /\ ~fn_ret.quality_result.raised
           /\ fn_ret.quality_result.status = "failed") =>
          /\ store.capture_status = "failed"
          /\ trace = <<"run_quality_gate">>
          /\ store.comparison = NoComparison
          /\ store.review_flag = fn_args.session.review_flag
          /\ pc = "done"
    /\ (Started("run_comparison") \/ store.comparison # NoComparison) =>
          /\ store.capture_status = "passed"
          /\ fn_ret.coverage_result.run /\ ~fn_ret.coverage_result.raised
          /\ fn_ret.coverage_result.complete \/ SevenPositions \subseteq SubmittedHints
          /\ fn_args.session.type = "move_out"
          /\ store.comparison.room = fn_args.capture.room
          /\ LET mi == fn_args.move_in_captures[store.comparison.move_in_capture_id]
             IN  mi.room = fn_args.capture.room /\ mi.status = "passed"

\* A move-out capture that shows the seven positions, with incomplete
\* coverage, was compared with the second move-in capture, the first one of
\* the room not having passed
C29_Witness ==
    /\ pc = "done"
    /\ trace = <<"run_quality_gate", "run_coverage_review", "run_comparison">>
    /\ ~fn_ret.coverage_result.complete
    /\ store.capture_status = "passed"
    /\ store.comparison.status = "complete"
    /\ store.comparison.move_in_capture_id = 2
    /\ fn_args.move_in_captures[1].room = fn_args.capture.room

\* C30: every capture that submit_capture puts into 'processing' eventually
\* reaches 'passed', 'failed' or 'needs_coverage', and every comparison that
\* run_comparison_pipeline puts into 'processing' eventually reaches
\* 'complete', also when a stage raises an exception.
C30_NothingStaysProcessing ==
    /\ (store.capture_status = "processing")
          ~> (store.capture_status \in {"passed", "failed", "needs_coverage"})
    /\ (store.comparison.status = "processing")
          ~> (store.comparison.status = "complete")

=============================================================================
